---- MODULE Spec2Model ----
(***************************************************************************)
(* A model of the httptrading gateway core:                                *)
(*   - tool/leaky_bucket.py   LeakyBucket (Spec)                           *)
(*   - model.py               Order and its derived properties (SpecOrder) *)
(*   - http_server.py         auth / exception middlewares (SpecGateway)   *)
(*   - broker/longbridge.py   TokenKeeper and _try_refresh (SpecRefresh,   *)
(*                            SpecKeeper, SpecUpdate)                      *)
(*   - broker/base.py         BrokerRegister and the broker constructors   *)
(*                            (SpecRegister), call_sync / call_async       *)
(*   - http_server.py         the views (SpecView), run's startup and      *)
(*                            shutdown handlers (SpecLifecycle)            *)
(*   - tool/leaky_bucket.py   LeakyBucket as a context manager (SpecWith)  *)
(*   - tool/leaky_bucket.py   order of service (SpecArrival), consume and  *)
(*                            consume_async side by side (SpecPaths) and   *)
(*                            on one limiter (SpecMixed)                   *)
(*   - broker/longbridge.py   whole operations and their locks             *)
(*                            (SpecOperation), pushed order changes        *)
(*                            (SpecPush)                                   *)
(* Time is the integer number of seconds since the construction of the     *)
(* objects (TimeTools.utc_now().timestamp()).                              *)
(***************************************************************************)
EXTENDS Integers, Sequences, FiniteSets, TLC

\* ---------------------------------------------------------------- bounds
NumCallers == 2      \* concurrent callers of one LeakyBucket
MaxAcquires == 4     \* acquisitions issued in all
MaxTime == 4         \* the clock stops advancing here (seconds)
MaxCap == 2          \* largest capacity the limiter is constructed with

\* leak rates (tokens per 60 seconds) the limiter is constructed with:
\* one token per 2 s, per 1.5 s, and two tokens per second
Rates == {30, 40, 120}

Callers == 1..NumCallers

VARIABLES
    now,          \* TimeTools.utc_now().timestamp()
    capacity,     \* LeakyBucket._capacity
    leak_rate,    \* LeakyBucket._leak_rate
    used_tokens,  \* LeakyBucket._used_tokens
    last_time,    \* LeakyBucket._last_time
    lock,         \* LeakyBucket._lock  (threading.Lock): holder or 0
    alock,        \* LeakyBucket._alock (asyncio.Lock):   holder or 0
    caller,       \* per caller: position in consume / consume_async and locals
    commits,      \* the acquisitions committed so far, in commit order
    order,        \* an Order value (model.py)
    derived,      \* the derived properties read from it, or None
    wire,         \* the JSON last emitted for it, or none
    ib_contracts, \* InteractiveBrokers._ib_contracts: a dict keyed by Contract
    observed,     \* the last comparison of two values or call on the dict
    BROKERS,      \* HttpTradingView.__BROKERS
    request,      \* per inbound request: position in the middlewares and fields
    auto_refresh_token,  \* LongBridge._auto_refresh_token
    keeper,       \* LongBridge._token_keeper: [token, expiry]
    keeper_lock,  \* TokenKeeper.lock (threading.RLock): owner or 0
    token_file,   \* the persisted record: [token, expiry]
    loaded,       \* the record TokenKeeper.__init__ read
    lp_config,    \* LongBridge._lp_config: the access token it was built with
    refresh_calls,  \* calls of the partner's refresh_access_token so far
    thread,       \* per thread in _try_refresh / update_token: position and locals
    construction, \* how TokenKeeper.__init__ ended, or "none" before it ran
    reading,      \* what a caller last read from is_expired and should_refresh
    D,            \* BrokerRegister._D: class name -> class
    META,         \* BrokerRegister._META: class name -> BrokerMeta
    registered,   \* the last call of BrokerRegister.register and how it ended
    instance,     \* the object of the last broker constructor call, and how it ended
    imported,     \* the importlib.import_module calls of that constructor call
    app,          \* run(): the list it was given, the signal under way, the calls made
    with_block,   \* per caller: inside a with / async with block, and how it was left
    arrivals,     \* the calls of consume / consume_async so far, in call order
    paths,        \* two limiters side by side, one used through consume, one through consume_async
    assets_bucket,  \* LongBridge._assets_bucket: its count, its stamp and the holder of its _lock
    lb_operation, \* per thread: position in a LongBridge operation around _try_refresh
    event         \* the PushOrderChanged the vendor's client last handed to _on_order_changed

bucketVars == <<capacity, leak_rate, used_tokens, last_time, lock, alock, caller, commits>>

contractVars == <<ib_contracts, observed>>

orderVars == <<order, derived, wire, contractVars>>

gatewayVars == <<BROKERS, request>>

keeperVars == <<auto_refresh_token, keeper, keeper_lock, token_file, loaded, lp_config,
                refresh_calls, thread, construction, reading>>

registerVars == <<D, META, registered, instance, imported>>

\* the variables of the later parts of the model, which the earlier ones leave alone
moreVars == <<arrivals, paths, assets_bucket, lb_operation, event>>

laterVars == <<registerVars, app, with_block, moreVars>>

vars == <<now, bucketVars, orderVars, gatewayVars, keeperVars, laterVars>>

nonBucket == <<orderVars, gatewayVars, keeperVars, laterVars>>

None == "None"

Max(a, b) == IF a >= b THEN a ELSE b

\* ------------------------------------------------- LeakyBucket, pure parts

get_used_tokens_per_second(used, last, rate, t) ==
    LET delta == rate * (t - last)
    IN  Max(0, used - delta)

get_used_tokens_round_up(used, last, rate, t) ==
    LET delta == (rate * (t - last) + 59) \div 60
    IN  Max(0, used - delta)

get_used_tokens_without_decay(used, last, rate, t) == Max(0, used)

\* _get_used_tokens: the lazily decayed count at clock reading t
get_used_tokens(used, last, rate, t) ==
    LET delta == (rate * (t - last)) \div 60
    IN  Max(0, used - delta)

admits_upto_capacity(new_used, cap) == new_used <= cap

\* the test of _consume / consume_async: 1 + used <= capacity
admits(new_used, cap) == 1 + new_used <= cap

\* ------------------------------------------------------------ model.Order
MaxQty == 3          \* largest qty / filled_qty of an Order

\* Order(order_id, currency, qty, filled_qty, avg_price, error_reason,
\* is_canceled, is_pending_cancel); order_id, currency and avg_price are read
\* by no derived property and are left out
Orders ==
    [qty : 0..MaxQty, filled_qty : 0..MaxQty, error_reason : {"", "Rejected"},
     is_canceled : BOOLEAN, is_pending_cancel : BOOLEAN]

is_filled_strictly_more(o) ==
    IF o.filled_qty > o.qty THEN TRUE ELSE FALSE

\* Order.is_filled
is_filled(o) ==
    IF o.filled_qty >= o.qty THEN TRUE ELSE FALSE

is_completed_without_error_reason(o) ==
    IF o.filled_qty >= o.qty THEN TRUE
    ELSE IF o.is_canceled THEN TRUE
    ELSE FALSE

\* Order.is_completed
is_completed(o) ==
    IF o.filled_qty >= o.qty THEN TRUE
    ELSE IF o.is_canceled THEN TRUE
    ELSE IF o.error_reason # "" THEN TRUE
    ELSE FALSE

is_cancelable_while_pending(o) ==
    LET completed == is_completed(o)
    IN  ~completed

\* Order.is_cancelable
is_cancelable(o) ==
    LET completed == is_completed(o)
    IN  ~completed /\ ~o.is_pending_cancel

\* no Order is looked at: Order(order_id, currency, qty = 0) with the defaults
NotRead ==
    [read |-> FALSE, is_filled |-> FALSE, is_completed |-> FALSE, is_cancelable |-> FALSE]

\* HttpTradingView.json_default(obj) for an Order, as json.dumps calls it
\* from response_obj (orderId, currency and avgPrice copy fields that Orders
\* leaves out)
json_default(o) ==
    [type |-> "order",
     qty |-> o.qty,
     filledQty |-> o.filled_qty,
     errorReason |-> o.error_reason,
     isCanceled |-> o.is_canceled,
     isFilled |-> is_filled(o),
     isCompleted |-> is_completed(o)]

\* model.JsonDefault.json_default(obj) for an Order (HtGlobalConfig.JSON_DEFAULT)
JsonDefault_json_default(o) ==
    [type |-> "order",
     qty |-> o.qty,
     filledQty |-> o.filled_qty,
     errorReason |-> o.error_reason,
     isCanceled |-> o.is_canceled,
     isFilled |-> is_filled(o),
     isCompleted |-> is_completed(o),
     isCancelable |-> is_cancelable(o)]

NotEmitted == [by |-> "none", json |-> [type |-> "none"]]

\* --------------------------------------------------------- model.Contract
NumCopies == 2       \* Contract objects constructed with the same fields

\* (trade_type, symbol, region) of the contracts in use: each differs from the
\* first in one field
Triples ==
    { <<"Securities", "AAPL", "US">>,
      <<"Cryptocurrencies", "AAPL", "US">>,
      <<"Securities", "TSLA", "US">>,
      <<"Securities", "AAPL", "HK">> }

\* Contract(trade_type, symbol, region): an object of its own at each
\* construction
Contracts ==
    { [kind |-> "Contract", id |-> n, trade_type |-> p[1], symbol |-> p[2], region |-> p[3]] :
        n \in 1..NumCopies, p \in Triples }

\* values that are not Contracts: the plain tuples of the same three values
Tuples ==
    { [kind |-> "tuple", id |-> 0, trade_type |-> p[1], symbol |-> p[2], region |-> p[3]] :
        p \in Triples }

unique_pair_without_region(c) == <<c.trade_type, c.symbol>>

\* Contract.unique_pair
unique_pair(c) == <<c.trade_type, c.symbol, c.region>>

\* hash() of an enum member and of a str
hash_of(x) ==
    CASE x = "Securities" -> 11
      [] x = "Cryptocurrencies" -> 12
      [] x = "AAPL" -> 21
      [] x = "TSLA" -> 22
      [] x = "US" -> 31
      [] x = "HK" -> 32

\* tuple.__hash__: the hashes of the items, combined in order
RECURSIVE tuple_hash(_)
tuple_hash(t) ==
    IF t = <<>> THEN 7
    ELSE (tuple_hash(SubSeq(t, 1, Len(t) - 1)) * 31 + hash_of(t[Len(t)])) % 65536

\* Contract.__hash__
Contract_hash(c) == tuple_hash(unique_pair(c))

\* Contract.__eq__(self, other)
Contract_eq(self, other) ==
    IF other.kind = "Contract" THEN unique_pair(self) = unique_pair(other)
    ELSE FALSE

\* hash(x)
py_hash(x) ==
    IF x.kind = "Contract" THEN Contract_hash(x)
    ELSE tuple_hash(<<x.trade_type, x.symbol, x.region>>)

\* x == y: type(x).__eq__(x, y), and when that is NotImplemented (a tuple
\* against a value that is no tuple) the reflected type(y).__eq__(y, x)
py_eq(x, y) ==
    IF x.kind = "Contract" THEN Contract_eq(x, y)
    ELSE IF y.kind = "Contract" THEN Contract_eq(y, x)
    ELSE <<x.trade_type, x.symbol, x.region>> = <<y.trade_type, y.symbol, y.region>>

\* the entries of dict d a lookup of key finds: same hash, then the same
\* object or an equal one
dict_find(d, key) ==
    {e \in d : py_hash(e.key) = py_hash(key) /\ (e.key = key \/ py_eq(e.key, key))}

NothingObserved == [op |-> "none"]

\* no Contract is in use
IdleContract ==
    /\ ib_contracts = {}
    /\ observed = NothingObserved

\* no Order is looked at: Order(order_id, currency, qty = 0) with the defaults
IdleOrder ==
    /\ order = [qty |-> 0, filled_qty |-> 0, error_reason |-> "",
                is_canceled |-> FALSE, is_pending_cancel |-> FALSE]
    /\ derived = NotRead
    /\ wire = NotEmitted
    /\ IdleContract

\* ------------------------------------------------- http_server, pure parts
NumRequests == 2     \* requests served concurrently
MaxBrokers == 2      \* longest configured broker list

TokenMinLen == 16
TokenMaxLen == 64

Requests == 1..NumRequests

\* a header value, by its length and its content
Token(n) == [len |-> n, key |-> "k"]

\* request.headers.get('HT-TOKEN', '') of a request without the header
NoToken == [len |-> 0, key |-> ""]

HeaderTokens == {NoToken} \cup {Token(n) : n \in {15, 16, 64, 65}}

\* match_info.get('instance_id', ''): '' for a path that matches no route
InstanceIds == {"", "inst_a", "inst_b"}

\* the broker objects that can be configured: two of them share an instance id,
\* and token sets hold values of every length (BaseBroker.__init__ only
\* refuses '')
BrokerPool ==
    { [instance_id |-> "inst_a", tokens |-> {Token(15), Token(16)}, broker_name |-> "futu"],
      [instance_id |-> "inst_b", tokens |-> {Token(64), Token(65)}, broker_name |-> "tiger"],
      [instance_id |-> "inst_a", tokens |-> {Token(16), Token(64)}, broker_name |-> "longBridge"] }

BrokerLists ==
    {l \in UNION {[1..n -> BrokerPool] : n \in 0..MaxBrokers} :
        \A i, j \in DOMAIN l : i # j => l[i] # l[j]}

\* BaseBroker.broker_display: BrokerRegister.get_meta(type(self)).display
broker_display(b) ==
    CASE b.broker_name = "futu" -> "Futu"
      [] b.broker_name = "tiger" -> "Tiger"
      [] b.broker_name = "longBridge" -> "LongBridge"

Min(S) == CHOOSE x \in S : \A y \in S : x <= y

auth_without_length_check(brokers, instance_id, token) ==
    IF instance_id = "" THEN 0
    ELSE IF token.len = 0 THEN 0
    ELSE LET matching == {i \in 1..Len(brokers) : brokers[i].instance_id = instance_id}
         IN  IF matching = {} THEN 0
             ELSE IF token \notin brokers[Min(matching)].tokens THEN 0
             ELSE Min(matching)

auth_any_matching_broker(brokers, instance_id, token) ==
    IF instance_id = "" THEN 0
    ELSE IF token.len = 0 THEN 0
    ELSE IF token.len < TokenMinLen \/ token.len > TokenMaxLen THEN 0
    ELSE LET holding == {i \in 1..Len(brokers) :
                            /\ brokers[i].instance_id = instance_id
                            /\ token \in brokers[i].tokens}
         IN  IF holding = {} THEN 0 ELSE Min(holding)

\* auth_middleware, lines 224-240: the index of the broker bound to the
\* request, or 0 when HTTPNotFound is raised
auth(brokers, instance_id, token) ==
    IF instance_id = "" THEN 0
    ELSE IF token.len = 0 THEN 0
    ELSE IF token.len < TokenMinLen \/ token.len > TokenMaxLen THEN 0
    ELSE LET matching == {i \in 1..Len(brokers) : brokers[i].instance_id = instance_id}
         IN  IF matching = {} THEN 0
             ELSE IF token \notin brokers[Min(matching)].tokens THEN 0
             ELSE Min(matching)

\* an exception: its class, the broker a BrokerError carries, and its str()
NoExc == [kind |-> "none", broker |-> 0, msg |-> ""]

\* BrokerError(self, ex).__str__()
broker_error_str(b) ==
    CASE b.broker_name = "futu" -> "[inst_a]<futu Futu>: ex"
      [] b.broker_name = "tiger" -> "[inst_b]<tiger Tiger>: ex"
      [] b.broker_name = "longBridge" -> "[inst_a]<longBridge LongBridge>: ex"

\* what a view and the broker operation it calls raise for the broker bound at
\* index i: BrokerError from call_sync / call_async, KeyError from an enum
\* lookup, AssertionError (whose str() is empty) from an assert
Raisable(brokers, i) ==
    { [kind |-> "BrokerError", broker |-> i, msg |-> broker_error_str(brokers[i])],
      [kind |-> "KeyError", broker |-> 0, msg |-> "'--'"],
      [kind |-> "AssertionError", broker |-> 0, msg |-> ""] }

NoArgs == <<>>

EnvelopeKeys == {"type", "instanceId", "broker", "brokerDisplay", "time", "ex"}

response_api_null_for_empty_message(brokers, i, args, ex, t) ==
    LET resp == [type |-> "apiResponse",
                 instanceId |-> IF i # 0 THEN brokers[i].instance_id ELSE None,
                 broker |-> IF i # 0 THEN brokers[i].broker_name ELSE None,
                 brokerDisplay |-> IF i # 0 THEN broker_display(brokers[i]) ELSE None,
                 time |-> t,
                 ex |-> IF ex.kind # "none" /\ ex.msg # "" THEN ex.msg ELSE None]
    IN  [status |-> 200, body |-> IF args # NoArgs THEN args @@ resp ELSE resp]

\* HttpTradingView.response_api(broker, args, ex): i is the index of the
\* broker, 0 for None
response_api(brokers, i, args, ex, t) ==
    LET resp == [type |-> "apiResponse",
                 instanceId |-> IF i # 0 THEN brokers[i].instance_id ELSE None,
                 broker |-> IF i # 0 THEN brokers[i].broker_name ELSE None,
                 brokerDisplay |-> IF i # 0 THEN broker_display(brokers[i]) ELSE None,
                 time |-> t,
                 ex |-> IF ex.kind # "none" THEN ex.msg ELSE None]
    IN  [status |-> 200, body |-> IF args # NoArgs THEN args @@ resp ELSE resp]

\* web.HTTPNotFound
HTTPNotFound == [status |-> 404, body |-> [type |-> "HTTPNotFound"]]

\* an exception that leaves the middlewares: aiohttp answers 500
HTTPInternalServerError == [status |-> 500, body |-> [type |-> "HTTPInternalServerError"]]

NoResponse == [status |-> 0, body |-> [type |-> "none"]]

NewRequest ==
    [pc |-> "new", instance_id |-> "", token |-> NoToken, current_broker |-> 0,
     exc |-> NoExc, response |-> NoResponse]

\* no broker is configured and no request arrives
IdleGateway ==
    /\ BROKERS = <<>>
    /\ request = [r \in Requests |-> NewRequest]

\* -------------------------------------------------- longbridge, pure parts
NumThreads == 2      \* executor threads in _try_refresh at the same time
MaxDays == 5         \* the clock stops advancing after this many days

RefreshWindowDays == 3
TokenLifetimeDays == 90
TokenBucketRate == 6
DefaultCapacity == 1

DaySecs == 24 * 60 * 60

Threads == 1..NumThreads

\* TokenKeeper.is_expired (the expiry of a loaded keeper is never empty)
is_expired(k, t) ==
    IF t >= k.expiry THEN TRUE ELSE FALSE

should_refresh_past_expiry(k, t) ==
    IF t >= k.expiry - RefreshWindowDays * DaySecs THEN TRUE
    ELSE FALSE

should_refresh_in_last_day(k, t) ==
    IF t >= k.expiry THEN FALSE
    ELSE IF t >= k.expiry - DaySecs THEN TRUE
    ELSE FALSE

\* TokenKeeper.should_refresh
should_refresh(k, t) ==
    IF t >= k.expiry THEN FALSE
    ELSE IF t >= k.expiry - RefreshWindowDays * DaySecs THEN TRUE
    ELSE FALSE

\* datetime.isoformat() of an aware UTC datetime: the date, the time of day
\* and the offset, written apart
isoformat(e) == [date |-> e \div DaySecs, time |-> e % DaySecs, utcoffset |-> 0]

\* datetime.fromisoformat(text)
fromisoformat(x) == x.date * DaySecs + x.time - x.utcoffset

\* d = {'token': self.token, 'expiry': self.expiry.isoformat()}, the record
\* tomlkit.dumps writes and tomllib.loads reads
toml_record(k) == [token |-> k.token, expiry |-> isoformat(k.expiry)]

IdleThread == [pc |-> "idle", cfg |-> 0, expiry |-> 0, token |-> 0, outcome |-> "none"]

\* d.get('token') of a record without the key (None), and the token ''
Missing == -2

Empty == -1

\* `assert token`: None and '' fail it
truthy(token) == token >= 0

\* no TokenKeeper object exists
NoKeeper == [token |-> Missing, expiry |-> 0]

\* nobody has read is_expired and should_refresh
NoReading == [at |-> 0, token |-> 0, expiry |-> 0, is_expired |-> FALSE,
              should_refresh |-> FALSE, read |-> FALSE]

\* no LongBridge instance is running
IdleKeeper ==
    /\ auto_refresh_token = FALSE
    /\ keeper = [token |-> 0, expiry |-> DaySecs]
    /\ keeper_lock = 0
    /\ token_file = toml_record([token |-> 0, expiry |-> DaySecs])
    /\ loaded = [token |-> 0, expiry |-> DaySecs]
    /\ lp_config = 0
    /\ refresh_calls = 0
    /\ thread = [t \in Threads |-> IdleThread]
    /\ construction = "none"
    /\ reading = NoReading

\* -------------------------------------------------- broker/base, pure parts
\* broker classes: BrokerRegister reads the __name__ of one only, and two
\* classes of different modules can have the same __name__
Classes ==
    { [name |-> "Futu", module |-> "httptrading.broker.futu_sec"],
      [name |-> "Futu", module |-> "plugin.futu"],
      [name |-> "Tiger", module |-> "httptrading.broker.tiger"] }

\* detect_pkg = None
NoPkg == [pkg_name |-> "", import_name |-> ""]

\* DetectPkg(pkg_name, import_name)
DetectPkg(pkg_name, import_name) == [pkg_name |-> pkg_name, import_name |-> import_name]

\* the probes register is called with
Probes == {NoPkg, DetectPkg("futu-api", "futu"), DetectPkg("tigeropen", "tigeropen")}

\* BrokerMeta(name=name, display=display, detect_package=detect_pkg)
BrokerMeta(name, display, detect_pkg) ==
    [name |-> name, display |-> display, detect_package |-> detect_pkg]

\* the (name, display) pairs register is called with
Labels == {<<"futu", "Futu">>, <<"tiger", "Tiger">>}

\* BrokerRegister._META.get(...) of a class that is not registered
NoMeta == [name |-> None, display |-> None, detect_package |-> NoPkg]

register_replaces(d, meta, broker_class, name, display, detect_pkg) ==
    LET type_name == broker_class.name
    IN  [D |-> (type_name :> broker_class) @@ d,
         META |-> (type_name :> BrokerMeta(name, display, detect_pkg)) @@ meta,
         raised |-> NoExc]

\* BrokerRegister.register: the two maps after the call and what it raised
register(d, meta, broker_class, name, display, detect_pkg) ==
    LET type_name == broker_class.name
    IN  IF type_name \in DOMAIN d
        THEN [D |-> d, META |-> meta,
              raised |-> [kind |-> "ValueError", broker |-> 0, msg |-> type_name]]
        ELSE [D |-> (type_name :> broker_class) @@ d,
              META |-> (type_name :> BrokerMeta(name, display, detect_pkg)) @@ meta,
              raised |-> NoExc]

\* BrokerRegister.get_meta
get_meta(meta, broker_class) ==
    IF broker_class.name \in DOMAIN meta THEN meta[broker_class.name] ELSE NoMeta

detect_package_unchecked(meta, broker_class, importable) ==
    LET pkg_info == get_meta(meta, broker_class).detect_package
    IN  IF get_meta(meta, broker_class) = NoMeta
        THEN [raised |-> [kind |-> "AttributeError", broker |-> 0, msg |-> "detect_package"],
              imported |-> <<>>]
        ELSE IF pkg_info = NoPkg
        THEN [raised |-> NoExc, imported |-> <<>>]
        ELSE [raised |-> NoExc,
              imported |-> <<[name |-> pkg_info.import_name, ImportError |-> ~importable]>>]

\* BaseBroker.detect_package: what it raises and the import_module calls it
\* makes; `importable` tells whether the import succeeds.  The class that is
\* not registered has no metadata: None.detect_package is an AttributeError
detect_package(meta, broker_class, importable) ==
    LET pkg_info == get_meta(meta, broker_class).detect_package
    IN  IF get_meta(meta, broker_class) = NoMeta
        THEN [raised |-> [kind |-> "AttributeError", broker |-> 0, msg |-> "detect_package"],
              imported |-> <<>>]
        ELSE IF pkg_info = NoPkg
        THEN [raised |-> NoExc, imported |-> <<>>]
        ELSE [raised |-> IF importable THEN NoExc
                         ELSE [kind |-> "ImportError", broker |-> 0, msg |-> pkg_info.pkg_name],
              imported |-> <<[name |-> pkg_info.import_name, ImportError |-> ~importable]>>]

\* the arguments of a broker constructor: broker_args (None or a dict),
\* instance_id (None or an id), tokens (None or a list)
BrokerArgs == {"None", "{'host': '127.0.0.1'}"}

InstanceIdArgs == {"None", "inst_a"}

NoList == [none |-> TRUE, items |-> <<>>]

List(items) == [none |-> FALSE, items |-> items]

TokenLists == {NoList, List(<<"k16", "k16">>), List(<<"k16", "">>)}

\* an object before __init__ has set anything
NoInstance ==
    [class |-> "none", raised |-> NoExc, attrs |-> {}, broker_args |-> "", instance_id |-> "",
     tokens |-> {}, client |-> FALSE]

\* BaseBroker.__init__, lines 10-14
BaseBroker_init(meta, broker_class, broker_args, instance_id, tokens, importable) ==
    LET probe == detect_package(meta, broker_class, importable)
        self0 == [NoInstance EXCEPT !.class = broker_class.name]
        self1 == [self0 EXCEPT
                    !.attrs = {"broker_args", "instance_id", "tokens"},
                    !.broker_args = IF broker_args = "None" THEN "{}" ELSE broker_args,
                    !.instance_id = IF instance_id = "None" THEN "" ELSE instance_id,
                    !.tokens = {tokens.items[i] : i \in DOMAIN tokens.items}]
    IN  IF probe.raised # NoExc
        THEN [self |-> [self0 EXCEPT !.raised = probe.raised], imported |-> probe.imported]
        ELSE IF "" \in self1.tokens
        THEN [self |-> [self1 EXCEPT !.raised =
                           [kind |-> "AssertionError", broker |-> 0, msg |-> ""]],
              imported |-> probe.imported]
        ELSE [self |-> self1, imported |-> probe.imported]

\* the __init__ of an adapter (Futu, Tiger, LongBridge, InteractiveBrokers):
\* super().__init__(broker_args, instance_id, tokens) first, then its own
\* fields and _on_init(), which creates the vendor clients
Adapter_init(meta, broker_class, broker_args, instance_id, tokens, importable) ==
    LET base == BaseBroker_init(meta, broker_class, broker_args, instance_id, tokens, importable)
    IN  IF base.self.raised # NoExc
        THEN base
        ELSE [base EXCEPT !.self.client = TRUE,
                          !.self.attrs = base.self.attrs \cup {"_quote_client", "_trade_client"}]

\* register has not been called
NoCall == [class |-> "none", module |-> "none", raised |-> NoExc]

IdleRegister ==
    /\ D = <<>>
    /\ META = <<>>
    /\ registered = NoCall
    /\ instance = NoInstance
    /\ imported = <<>>

\* run() has not been called
IdleApp == [phase |-> "none", brokers |-> <<>>, calls |-> <<>>]

\* no caller is inside a with / async with block
OutOfBlock == [state |-> "out", exc_type |-> None]

IdleLifecycle == app = IdleApp

IdleWith == with_block = [c \in 1..NumCallers |-> OutOfBlock]

\* no call of consume / consume_async is on record
IdleArrivals == arrivals = <<>>

\* a pass of the loop of _consume / consume_async that has not been made
NoPass == [returned |-> FALSE, secs |-> 0, slept |-> 0]

NoLimiter == [capacity |-> 0, leak_rate |-> 0, used_tokens |-> 0, last_time |-> 0]

IdlePaths ==
    paths = [sync |-> NoLimiter, async |-> NoLimiter,
             out |-> [sync |-> NoPass, async |-> NoPass], ready |-> 0]

\* no LongBridge operation has been called
NoOperation == [pc |-> "out", wake |-> 0]

IdleOperations ==
    /\ assets_bucket = [used_tokens |-> 0, last_time |-> 0, lock |-> 0]
    /\ lb_operation = [t \in 1..NumThreads |-> NoOperation]

\* the vendor's client has pushed no order change
NoEvent == [status |-> "none", submitted_quantity |-> 0, executed_quantity |-> 0]

IdlePush == event = NoEvent

IdleMore ==
    /\ IdleArrivals
    /\ IdlePaths
    /\ IdleOperations
    /\ IdlePush

IdleLater ==
    /\ IdleRegister
    /\ IdleLifecycle
    /\ IdleWith
    /\ IdleMore

\* ------------------------------------------------ LeakyBucket, the callers
\* A caller is a thread in consume (conv = "sync", excluded by _lock) or a
\* task in consume_async (conv = "async", excluded by _alock).  Its locals:
\*   t_now   the clock reading of _get_used_tokens (line 51)
\*   t_last  last_time, copied under the lock after a failed test
\*   wake    the instant the sleep ends, times leak_rate (to stay an integer)
\* pc: idle -> acquire -> test -> (inc -> stamp -> idle)
\*                             |  (miss -> sleep -> (asleep ->) acquire)
IdleCaller(cv) ==
    [pc |-> "idle", conv |-> cv, t_now |-> 0, t_last |-> 0, wake |-> 0]

\* the acquisitions issued so far: the committed ones and those under way
Issued == Len(commits) + Cardinality({c \in Callers : caller[c].pc # "idle"})

\* secs = last_time + 60.0 / self._leak_rate - now, times leak_rate
secs_times_rate(t_last, rate, t) == (t_last - t) * rate + 60

OneLockForBoth(c) == lock = 0 /\ alock = 0

LockFree(c) == IF caller[c].conv = "sync" THEN lock = 0 ELSE alock = 0

Take(c) ==
    /\ lock' = IF caller[c].conv = "sync" THEN c ELSE lock
    /\ alock' = IF caller[c].conv = "async" THEN c ELSE alock

Release(c) ==
    /\ lock' = IF caller[c].conv = "sync" THEN 0 ELSE lock
    /\ alock' = IF caller[c].conv = "async" THEN 0 ELSE alock

\* LeakyBucket.__init__ with the defaults used_tokens = 0; every caller of one
\* limiter uses the same calling convention
Init ==
    /\ now = 0
    /\ capacity \in 1..MaxCap
    /\ leak_rate \in Rates
    /\ used_tokens = 0
    /\ last_time = 0
    /\ lock = 0
    /\ alock = 0
    /\ \E cv \in {"sync", "async"} : caller = [c \in Callers |-> IdleCaller(cv)]
    /\ commits = <<>>
    /\ IdleOrder
    /\ IdleGateway
    /\ IdleKeeper
    /\ IdleLater

\* the clock advances
Tick ==
    /\ now < MaxTime
    /\ now' = now + 1
    /\ UNCHANGED <<bucketVars, nonBucket>>

\* consume() / consume_async() is called
Call(c) ==
    /\ caller[c].pc = "idle"
    /\ Issued < MaxAcquires
    /\ caller' = [caller EXCEPT ![c].pc = "acquire"]
    /\ UNCHANGED <<now, capacity, leak_rate, used_tokens, last_time, lock, alock, commits>>
    /\ UNCHANGED nonBucket

LockNotExclusive(c) ==
    /\ caller[c].pc = "acquire"
    /\ Take(c)
    /\ caller' = [caller EXCEPT ![c].pc = "test"]
    /\ UNCHANGED <<now, capacity, leak_rate, used_tokens, last_time, commits>>
    /\ UNCHANGED nonBucket

\* with self._lock: / async with self._alock:
Lock(c) ==
    /\ caller[c].pc = "acquire"
    /\ LockFree(c)
    /\ Take(c)
    /\ caller' = [caller EXCEPT ![c].pc = "test"]
    /\ UNCHANGED <<now, capacity, leak_rate, used_tokens, last_time, commits>>
    /\ UNCHANGED nonBucket

\* if 1 + self._get_used_tokens(rewrite_tokens=True) <= self._capacity:
Test(c) ==
    /\ caller[c].pc = "test"
    /\ LET new_used_tokens == get_used_tokens(used_tokens, last_time, leak_rate, now)
       IN  /\ used_tokens' = new_used_tokens
           /\ caller' = [caller EXCEPT
                  ![c].pc = IF admits(new_used_tokens, capacity) THEN "inc" ELSE "miss",
                  ![c].t_now = now]
    /\ UNCHANGED <<now, capacity, leak_rate, last_time, lock, alock, commits>>
    /\ UNCHANGED nonBucket

\* self._used_tokens += 1
Commit(c) ==
    /\ caller[c].pc = "inc"
    /\ used_tokens' = used_tokens + 1
    /\ caller' = [caller EXCEPT ![c].pc = "stamp"]
    /\ UNCHANGED <<now, capacity, leak_rate, last_time, lock, alock, commits>>
    /\ UNCHANGED nonBucket

StampKeepsLastTime(c) ==
    /\ caller[c].pc = "stamp"
    /\ last_time' = last_time
    /\ commits' = Append(commits, [t |-> caller[c].t_now, last |-> now, used |-> used_tokens])
    /\ Release(c)
    /\ caller' = [caller EXCEPT ![c].pc = "idle", ![c].t_now = 0]
    /\ UNCHANGED <<now, capacity, leak_rate, used_tokens>>
    /\ UNCHANGED nonBucket

\* self._last_time = TimeTools.utc_now().timestamp(); break (the lock is released)
Stamp(c) ==
    /\ caller[c].pc = "stamp"
    /\ last_time' = now
    /\ commits' = Append(commits, [t |-> caller[c].t_now, last |-> now, used |-> used_tokens])
    /\ Release(c)
    /\ caller' = [caller EXCEPT ![c].pc = "idle", ![c].t_now = 0]
    /\ UNCHANGED <<now, capacity, leak_rate, used_tokens>>
    /\ UNCHANGED nonBucket

MissKeepsLock(c) ==
    /\ caller[c].pc = "miss"
    /\ caller' = [caller EXCEPT ![c].pc = "sleep", ![c].t_last = last_time, ![c].t_now = 0]
    /\ UNCHANGED <<now, capacity, leak_rate, used_tokens, last_time, lock, alock, commits>>
    /\ UNCHANGED nonBucket

\* last_time = self._last_time (the lock is released)
Miss(c) ==
    /\ caller[c].pc = "miss"
    /\ Release(c)
    /\ caller' = [caller EXCEPT ![c].pc = "sleep", ![c].t_last = last_time, ![c].t_now = 0]
    /\ UNCHANGED <<now, capacity, leak_rate, used_tokens, last_time, commits>>
    /\ UNCHANGED nonBucket

SleepAtLeastOneSecond(c) ==
    /\ caller[c].pc = "sleep"
    /\ LET secs == secs_times_rate(caller[c].t_last, leak_rate, now)
       IN  caller' = [caller EXCEPT
               ![c].pc = "asleep",
               ![c].wake = now * leak_rate + Max(secs, leak_rate),
               ![c].t_last = 0]
    /\ UNCHANGED <<now, capacity, leak_rate, used_tokens, last_time, lock, alock, commits>>
    /\ UNCHANGED nonBucket

\* now = utc_now().timestamp(); secs = last_time + 60.0 / self._leak_rate - now;
\* TimeTools.sleep(secs) / await asyncio.sleep(secs): no wait when secs <= 0.
\* The sleep is taken to begin at the clock reading of `now`; one that begins
\* later ends later, which Wake allows anyway.
Sleep(c) ==
    /\ caller[c].pc = "sleep"
    /\ LET secs == secs_times_rate(caller[c].t_last, leak_rate, now)
       IN  caller' = [caller EXCEPT
               ![c].pc = IF secs <= 0 THEN "acquire" ELSE "asleep",
               ![c].wake = IF secs <= 0 THEN 0 ELSE now * leak_rate + secs,
               ![c].t_last = 0]
    /\ UNCHANGED <<now, capacity, leak_rate, used_tokens, last_time, lock, alock, commits>>
    /\ UNCHANGED nonBucket

\* the sleep ends, no earlier than secs after it began
Wake(c) ==
    /\ caller[c].pc = "asleep"
    /\ now * leak_rate >= caller[c].wake
    /\ caller' = [caller EXCEPT ![c].pc = "acquire", ![c].wake = 0]
    /\ UNCHANGED <<now, capacity, leak_rate, used_tokens, last_time, lock, alock, commits>>
    /\ UNCHANGED nonBucket

Next ==
    \/ Tick
    \/ \E c \in Callers : Call(c)
    \/ \E c \in Callers : Lock(c)
    \/ \E c \in Callers : Test(c)
    \/ \E c \in Callers : Commit(c)
    \/ \E c \in Callers : Stamp(c)
    \/ \E c \in Callers : Miss(c)
    \/ \E c \in Callers : Sleep(c)
    \/ \E c \in Callers : Wake(c)

Spec == Init /\ [][Next]_vars

\* ------------------------------------------------------------------ claims

\* C1: under one calling convention, in every reachable state
\* 0 <= _used_tokens <= capacity.
UsedTokensWithinCapacity == 0 <= used_tokens /\ used_tokens <= capacity

WitnessUsedTokensAtCapacity ==
    /\ used_tokens = capacity
    /\ capacity = MaxCap
    /\ \E c \in Callers : caller[c].pc = "miss"

\* the callers whose last test failed and that have not retried yet
Failed == {c \in Callers : caller[c].pc \in {"miss", "sleep", "asleep"}}

\* C8: from an empty limiter, of capacity + 1 attempts made with zero elapsed
\* time exactly `capacity` commit at once (none fails before `capacity` have
\* committed, no more than `capacity` commit), and the next commit comes no
\* earlier than 60 / leak_rate after the last of them.
BurstThenWait ==
    /\ now = 0 => Len(commits) <= capacity
    /\ (now = 0 /\ Failed # {}) => Len(commits) = capacity
    /\ (Len(commits) > capacity /\ commits[capacity].last = 0)
          => (commits[capacity + 1].t - commits[capacity].last) * leak_rate >= 60

WitnessBurstThenWait ==
    /\ capacity = MaxCap
    /\ Len(commits) > capacity
    /\ commits[capacity].last = 0

\* commit i filled the limiter at one instant
FilledAt(i) ==
    /\ commits[i].used = capacity
    /\ commits[i].t = commits[i].last

\* the commits after commit i whose attempt was made at instant t1
CommitsAt(i, t1) == {j \in (i + 1)..Len(commits) : commits[j].t = t1}

\* C9: after the limiter was filled at one instant t0 and exactly
\* k * 60 / leak_rate passed without a commit (1 <= k <= capacity), the next k
\* attempts made at that instant t1 commit and the (k+1)-th does not: at most k
\* commit at t1, and an attempt at t1 fails only after k have committed.
DecayAfterFill ==
    \A i \in 1..Len(commits) : \A k \in 1..capacity : \A t1 \in 0..now :
        ( /\ FilledAt(i)
          /\ (t1 - commits[i].last) * leak_rate = 60 * k
          /\ \A j \in (i + 1)..Len(commits) : commits[j].t >= t1 )
        => /\ Cardinality(CommitsAt(i, t1)) <= k
           /\ \A c \in Callers :
                 (caller[c].pc = "miss" /\ caller[c].t_now = t1)
                     => Cardinality(CommitsAt(i, t1)) = k

WitnessDecayAfterFill ==
    \E i \in 1..Len(commits) : \E t1 \in 0..now :
        /\ FilledAt(i)
        /\ (t1 - commits[i].last) * leak_rate = 60 * MaxCap
        /\ Cardinality(CommitsAt(i, t1)) = MaxCap
        /\ Len(commits) = i + MaxCap

\* C10: in every time interval of length T at most capacity + leak_rate * T / 60
\* acquisitions commit.  Commit i happens between its clock readings
\* commits[i].t and commits[i].last, so the shortest interval holding the
\* commits i..j is [commits[i].last, commits[j].t].
ThroughputCapped ==
    \A i, j \in 1..Len(commits) :
        i < j => (j - i + 1 - capacity) * 60 <= leak_rate * (commits[j].t - commits[i].last)

WitnessThroughputCapped ==
    \E i, j \in 1..Len(commits) :
        /\ i < j
        /\ j - i + 1 > capacity
        /\ (j - i + 1 - capacity) * 60 = leak_rate * (commits[j].t - commits[i].last)

\* ------------------------------------- LeakyBucket under a running clock
\* The clock of Spec stops at MaxTime.  Here it never stops: an instant is
\* kept by its age, as Horizon minus the seconds passed since, so that `now`
\* reads Horizon all along and a second that passes moves every recorded
\* instant one second back.  Horizon is long enough for a full limiter to
\* drain (floor(leak_rate / 60 * Horizon) >= capacity) and for any wait to be
\* over (Horizon >= 60 / leak_rate), so that an instant older than Horizon
\* acts as one of that age in _get_used_tokens and in
\* `secs = last_time + 60.0 / self._leak_rate - now`.
Horizon == (60 * MaxCap) \div Min(Rates)

Earlier(t) == Max(0, t - 1)

\* LeakyBucket.__init__ at this instant
InitLive ==
    /\ now = Horizon
    /\ capacity \in 1..MaxCap
    /\ leak_rate \in Rates
    /\ used_tokens = 0
    /\ last_time = now
    /\ lock = 0
    /\ alock = 0
    /\ \E cv \in {"sync", "async"} : caller = [c \in Callers |-> IdleCaller(cv)]
    /\ commits = <<>>
    /\ IdleOrder
    /\ IdleGateway
    /\ IdleKeeper
    /\ IdleLater

\* a second passes
TickOn ==
    /\ last_time' = Earlier(last_time)
    /\ caller' = [c \in Callers |->
           [caller[c] EXCEPT !.t_now = Earlier(caller[c].t_now),
                             !.t_last = Earlier(caller[c].t_last),
                             !.wake = Max(0, caller[c].wake - leak_rate)]]
    /\ commits' = [i \in DOMAIN commits |->
           [commits[i] EXCEPT !.t = Earlier(commits[i].t),
                              !.last = Earlier(commits[i].last)]]
    /\ UNCHANGED <<now, capacity, leak_rate, used_tokens, lock, alock>>
    /\ UNCHANGED nonBucket

\* one of a finite set of callers issues its one acquire
CallOnce(c) ==
    /\ Issued < NumCallers
    /\ Call(c)

\* the next step of caller c inside consume / consume_async
Proceed(c) ==
    \/ Lock(c)
    \/ Test(c)
    \/ Commit(c)
    \/ Stamp(c)
    \/ Miss(c)
    \/ Sleep(c)
    \/ Wake(c)

NextLive ==
    \/ TickOn
    \/ \E c \in Callers : CallOnce(c)
    \/ \E c \in Callers : Lock(c)
    \/ \E c \in Callers : Test(c)
    \/ \E c \in Callers : Commit(c)
    \/ \E c \in Callers : Stamp(c)
    \/ \E c \in Callers : Miss(c)
    \/ \E c \in Callers : Sleep(c)
    \/ \E c \in Callers : Wake(c)

\* the clock advances, and a thread or task that can take its next step (the
\* lock is free, the sleep is over) is scheduled in the end
FairScheduling ==
    /\ WF_vars(TickOn)
    /\ \A c \in Callers : WF_vars(Proceed(c))

SpecLive == InitLive /\ [][NextLive]_vars /\ FairScheduling

\* C11: with a finite set of callers each issuing one acquire, under fair
\* scheduling and an advancing clock, every acquire that was issued commits
\* and returns in the end.
EveryAcquireReturns ==
    \A c \in Callers : (caller[c].pc # "idle") ~> (caller[c].pc = "idle")

\* every caller's acquire has returned, the last of them one full wait after
\* the limiter of capacity 1 was filled
WitnessAllAcquiresReturned ==
    /\ capacity = 1
    /\ Len(commits) = NumCallers
    /\ \A c \in Callers : caller[c].pc = "idle"
    /\ \A i \in 1..(NumCallers - 1) :
          (commits[i + 1].t - commits[i].last) * leak_rate = 60

\* ------------------------------------------------------- model.Order, spec
nonOrder == <<now, bucketVars, gatewayVars, keeperVars, laterVars>>

IdleBucket ==
    /\ capacity = DefaultCapacity
    /\ leak_rate = TokenBucketRate
    /\ used_tokens = 0
    /\ last_time = 0
    /\ lock = 0
    /\ alock = 0
    /\ caller = [c \in Callers |-> IdleCaller("sync")]
    /\ commits = <<>>

\* an adapter has built an Order
InitOrder ==
    /\ now = 0
    /\ IdleBucket
    /\ IdleGateway
    /\ IdleKeeper
    /\ IdleLater
    /\ order \in Orders
    /\ derived = NotRead
    /\ wire = NotEmitted
    /\ IdleContract

\* an adapter builds another Order (the values are frozen: a change is a new
\* value)
NewOrder ==
    /\ \E o \in Orders : order' = o
    /\ derived' = NotRead
    /\ wire' = NotEmitted
    /\ UNCHANGED <<contractVars, nonOrder>>

\* the three derived properties of the Order are read
ReadProperties ==
    /\ derived' = [read |-> TRUE,
                   is_filled |-> is_filled(order),
                   is_completed |-> is_completed(order),
                   is_cancelable |-> is_cancelable(order)]
    /\ UNCHANGED <<order, wire, contractVars, nonOrder>>

\* OrderStateView.get: response_api(broker, {'order': order}), whose body is
\* written by HttpTradingView.dumps
OrderStateView ==
    /\ wire' = [by |-> "order/state", json |-> json_default(order)]
    /\ UNCHANGED <<order, derived, contractVars, nonOrder>>

\* json.dumps(order, default=HtGlobalConfig.JSON_DEFAULT.json_default)
JsonDefaultDumps ==
    /\ wire' = [by |-> "JSON_DEFAULT", json |-> JsonDefault_json_default(order)]
    /\ UNCHANGED <<order, derived, contractVars, nonOrder>>

NextOrder ==
    \/ NewOrder
    \/ ReadProperties
    \/ OrderStateView
    \/ JsonDefaultDumps

SpecOrder == InitOrder /\ [][NextOrder]_vars

\* C3: is_filled is true exactly when filled_qty >= qty (qty = 0 and
\* filled_qty > qty included), whatever the other fields are.
IsFilledIffFilledQtyReachesQty ==
    derived.read => (derived.is_filled <=> order.filled_qty >= order.qty)

WitnessIsFilledOverfill ==
    /\ derived.read
    /\ order.filled_qty > order.qty
    /\ derived.is_filled
    /\ order.error_reason # ""

\* C4: is_completed is true exactly when is_filled or is_canceled or
\* error_reason is non-empty; is_pending_cancel does not change it.
IsCompletedIffFilledCanceledOrError ==
    derived.read =>
        /\ derived.is_completed <=>
              (derived.is_filled \/ order.is_canceled \/ order.error_reason # "")
        /\ derived.is_completed =
              is_completed([order EXCEPT !.is_pending_cancel = ~order.is_pending_cancel])

WitnessCompletedByErrorOnly ==
    /\ derived.read
    /\ ~derived.is_filled
    /\ ~order.is_canceled
    /\ order.error_reason # ""
    /\ derived.is_completed

\* C5: is_cancelable is true exactly when is_completed is false and
\* is_pending_cancel is false: no Order is both completed and cancelable, and
\* none with a pending cancel is cancelable.
IsCancelableIffOpenAndNotPending ==
    derived.read =>
        /\ derived.is_cancelable <=> (~derived.is_completed /\ ~order.is_pending_cancel)
        /\ ~(derived.is_completed /\ derived.is_cancelable)
        /\ order.is_pending_cancel => ~derived.is_cancelable

WitnessPendingCancelNotCancelable ==
    /\ derived.read
    /\ ~derived.is_completed
    /\ order.is_pending_cancel
    /\ ~derived.is_cancelable

\* C15: the JSON the gateway emits for an Order in an order/state response
\* carries isFilled, isCompleted and isCancelable, each equal to the Order's
\* derived property of the same name.
OrderStateJsonCarriesDerived ==
    wire.by = "order/state" =>
        /\ {"isFilled", "isCompleted", "isCancelable"} \subseteq DOMAIN wire.json
        /\ wire.json.isFilled = is_filled(order)
        /\ wire.json.isCompleted = is_completed(order)
        /\ wire.json.isCancelable = is_cancelable(order)

\* ------------------------------------------------------- http_server, spec
nonGateway == <<now, bucketVars, orderVars, keeperVars, laterVars>>

\* run(): _on_startup has stored the configured list with set_brokers
InitGateway ==
    /\ now = 0
    /\ IdleBucket
    /\ IdleOrder
    /\ IdleKeeper
    /\ IdleLater
    /\ BROKERS \in BrokerLists
    /\ request = [r \in Requests |-> NewRequest]

\* auth_middleware, up to the call of the handler, on a request with the
\* path's instance_id `id` and the HT-TOKEN header `tok`: HTTPNotFound leaves
\* the application (auth_middleware is the outermost middleware), or the
\* broker is bound to the request with setattr
AuthMiddleware(r) ==
    /\ request[r].pc = "new"
    /\ \E id \in InstanceIds, tok \in HeaderTokens :
          LET i == auth(BROKERS, id, tok)
              arrived == [request[r] EXCEPT !.instance_id = id, !.token = tok]
          IN  request' = [request EXCEPT ![r] =
                  IF i = 0
                  THEN [arrived EXCEPT !.pc = "done", !.response = HTTPNotFound]
                  ELSE [arrived EXCEPT !.pc = "handler", !.current_broker = i]]
    /\ UNCHANGED <<BROKERS, nonGateway>>

current_broker_of_any_request(r) ==
    LET bound == {q \in Requests : request[q].current_broker # 0}
    IN  IF bound = {} THEN 0 ELSE request[Min(bound)].current_broker

\* HttpTradingView.current_broker(): the bound broker, or HTTPNotFound
current_broker(r) == request[r].current_broker

\* the view runs, calls the broker operation and returns response_api(broker, {...})
HandlerReturns(r) ==
    /\ request[r].pc = "handler"
    /\ current_broker(r) # 0
    /\ request' = [request EXCEPT
           ![r].pc = "unbind",
           ![r].response = response_api(BROKERS, current_broker(r), [result |-> "ok"], NoExc, now)]
    /\ UNCHANGED <<BROKERS, nonGateway>>

\* the view or the broker operation raises
HandlerRaises(r) ==
    /\ request[r].pc = "handler"
    /\ \E e \in IF current_broker(r) = 0
                THEN {[kind |-> "HTTPNotFound", broker |-> 0, msg |-> "Not Found"]}
                ELSE Raisable(BROKERS, current_broker(r)) :
          request' = [request EXCEPT ![r].pc = "raised", ![r].exc = e]
    /\ UNCHANGED <<BROKERS, nonGateway>>

ExceptionMiddlewareBrokerErrorOnly(r) ==
    /\ request[r].pc = "raised"
    /\ LET ex == request[r].exc
       IN  request' = [request EXCEPT
               ![r].pc = "unbind",
               ![r].response =
                   IF ex.kind = "BrokerError"
                   THEN response_api(BROKERS, ex.broker, NoArgs, ex, now)
                   ELSE HTTPInternalServerError]
    /\ UNCHANGED <<BROKERS, nonGateway>>

ExceptionMiddlewareRetries(r) ==
    /\ request[r].pc = "raised"
    /\ LET ex == request[r].exc
           again == ex.kind = "BrokerError" /\ Len(request[r].calls) < 2
       IN  request' = [request EXCEPT
               ![r].pc = IF again THEN "handler" ELSE "unbind",
               ![r].response =
                   IF again THEN NoResponse
                   ELSE IF ex.kind = "BrokerError"
                   THEN response_api(BROKERS, ex.broker, NoArgs, ex, now)
                   ELSE response_api(BROKERS, request[r].current_broker, NoArgs, ex, now)]
    /\ UNCHANGED <<BROKERS, nonGateway>>

\* exception_middleware, the two except clauses
ExceptionMiddleware(r) ==
    /\ request[r].pc = "raised"
    /\ LET ex == request[r].exc
       IN  request' = [request EXCEPT
               ![r].pc = "unbind",
               ![r].response =
                   IF ex.kind = "BrokerError"
                   THEN response_api(BROKERS, ex.broker, NoArgs, ex, now)
                   ELSE response_api(BROKERS, request[r].current_broker, NoArgs, ex, now)]
    /\ UNCHANGED <<BROKERS, nonGateway>>

UnbindAfterNormalReturnOnly(r) ==
    /\ request[r].pc = "unbind"
    /\ request' = [request EXCEPT
           ![r].pc = "done",
           ![r].current_broker = IF request[r].exc = NoExc THEN 0 ELSE request[r].current_broker]
    /\ UNCHANGED <<BROKERS, nonGateway>>

\* auth_middleware after the handler: delattr(request, '__current_broker__');
\* return response
Unbind(r) ==
    /\ request[r].pc = "unbind"
    /\ request' = [request EXCEPT ![r].pc = "done", ![r].current_broker = 0]
    /\ UNCHANGED <<BROKERS, nonGateway>>

NextGateway ==
    \/ \E r \in Requests : AuthMiddleware(r)
    \/ \E r \in Requests : HandlerReturns(r)
    \/ \E r \in Requests : HandlerRaises(r)
    \/ \E r \in Requests : ExceptionMiddleware(r)
    \/ \E r \in Requests : Unbind(r)

SpecGateway == InitGateway /\ [][NextGateway]_vars

\* the request passed auth_middleware: its handler is about to run, runs or ran
Authenticated(r) ==
    \/ request[r].pc \in {"handler", "raised", "unbind"}
    \/ request[r].pc = "done" /\ request[r].response.status # 404

\* the broker auth_middleware must bind to request r: the first of the list
\* with the path's instance id, holding the header's token, of length 16..64
Entitled(r, i) ==
    /\ i \in 1..Len(BROKERS)
    /\ BROKERS[i].instance_id = request[r].instance_id
    /\ \A j \in 1..(i - 1) : BROKERS[j].instance_id # request[r].instance_id
    /\ request[r].token.len >= 16
    /\ request[r].token.len <= 64
    /\ request[r].token \in BROKERS[i].tokens

\* C2: a handler runs for a request only if some configured broker has the
\* path's instance_id, the token's length is within 16..64 and the token is in
\* that broker's set; the broker bound is the first of the list with that id.
HandlerOnlyForEntitledRequest ==
    \A r \in Requests :
        /\ Authenticated(r) => \E i \in 1..Len(BROKERS) : Entitled(r, i)
        /\ request[r].current_broker # 0 =>
              /\ Authenticated(r)
              /\ Entitled(r, request[r].current_broker)

\* the second broker of the list is bound, and another one with the same id
\* follows it only
WitnessSecondBrokerBound ==
    \E r \in Requests :
        /\ request[r].pc = "raised"
        /\ request[r].current_broker = 2
        /\ request[r].token = Token(64)

\* C7: an exception raised by the view or the broker operation of an
\* authenticated request becomes a 200 response whose body is the bare
\* apiResponse envelope, the same keys for every kind of exception, with
\* ex = str(exception) and the identity of the request's broker (of the broker
\* the BrokerError carries); it never leaves as an HTTP error.
ExceptionBecomesEnvelope ==
    \A r \in Requests :
        (request[r].exc.kind # "none" /\ request[r].pc \in {"unbind", "done"}) =>
            LET resp == request[r].response
                i == IF request[r].exc.kind = "BrokerError"
                     THEN request[r].exc.broker
                     ELSE auth(BROKERS, request[r].instance_id, request[r].token)
            IN  /\ resp.status = 200
                /\ DOMAIN resp.body = EnvelopeKeys
                /\ resp.body.type = "apiResponse"
                /\ resp.body.ex = request[r].exc.msg
                /\ i # 0
                /\ resp.body.instanceId = request[r].instance_id
                /\ resp.body.instanceId = BROKERS[i].instance_id
                /\ resp.body.broker = BROKERS[i].broker_name
                /\ resp.body.brokerDisplay = broker_display(BROKERS[i])

WitnessKeyErrorEnvelope ==
    \E r \in Requests :
        /\ request[r].pc = "done"
        /\ request[r].exc.kind = "KeyError"
        /\ request[r].response.body.ex = "'--'"
        /\ request[r].response.body.broker = "longBridge"

\* the brokers of the configured list with the path's instance id
Matched(r) == {i \in 1..Len(BROKERS) : BROKERS[i].instance_id = request[r].instance_id}

\* one of the checks of the authentication fails for the request
UnknownInstance(r) == Matched(r) = {}

MissingToken(r) == request[r].token = NoToken

TokenLengthOutOfRange(r) == request[r].token.len < 16 \/ request[r].token.len > 64

TokenNotOfInstance(r) ==
    /\ Matched(r) # {}
    /\ request[r].token \notin BROKERS[Min(Matched(r))].tokens

AuthFails(r) ==
    /\ request[r].pc # "new"
    /\ \/ UnknownInstance(r)
       \/ MissingToken(r)
       \/ TokenLengthOutOfRange(r)
       \/ TokenNotOfInstance(r)

\* C12: whichever check of the authentication fails (unknown instance id,
\* missing token, token shorter than 16 or longer than 64, token not in the
\* matched instance's set), the request ends in the one not-found response,
\* no handler has run or raised, and no broker is bound; two failed requests
\* have the same response.
AuthFailuresAreAlike ==
    \A r \in Requests :
        AuthFails(r) =>
            /\ request[r].pc = "done"
            /\ request[r].response = HTTPNotFound
            /\ request[r].current_broker = 0
            /\ request[r].exc = NoExc
            /\ \A q \in Requests : AuthFails(q) => request[q].response = request[r].response

\* an unregistered instance id with a token that some broker holds, next to a
\* registered one with a token of valid length that another broker holds
WitnessTwoKindsOfAuthFailure ==
    \E r, q \in Requests :
        /\ AuthFails(r) /\ AuthFails(q)
        /\ UnknownInstance(r) /\ ~MissingToken(r) /\ ~TokenLengthOutOfRange(r)
        /\ request[r].instance_id # ""
        /\ TokenNotOfInstance(q) /\ ~TokenLengthOutOfRange(q)
        /\ \E i \in 1..Len(BROKERS) : request[q].token \in BROKERS[i].tokens
        /\ request[r].response = request[q].response

\* the broker the authentication resolves for the request
Resolved(r) == auth(BROKERS, request[r].instance_id, request[r].token)

\* the handler of the request has obtained its broker and answered with it
Answered(r) ==
    /\ request[r].pc \in {"unbind", "done"}
    /\ request[r].exc = NoExc
    /\ request[r].response.status = 200

\* C13: under any interleaving of concurrently served requests, the broker a
\* handler obtains from current_broker() (and answers with) is the one the
\* authentication resolved for that same request, and a step of one request
\* neither sets, replaces nor removes the binding of another.
BindingLocalToRequest ==
    /\ [](\A r \in Requests :
            /\ request[r].pc \in {"handler", "raised", "unbind"} =>
                  /\ current_broker(r) = Resolved(r)
                  /\ current_broker(r) # 0
            /\ Answered(r) =>
                  /\ request[r].response.body.instanceId = BROKERS[Resolved(r)].instance_id
                  /\ request[r].response.body.broker = BROKERS[Resolved(r)].broker_name)
    /\ [][\A r \in Requests :
            request'[r].current_broker # request[r].current_broker
                => request'[r].pc # request[r].pc]_vars

\* two requests to different instances are in their handlers at once, each
\* with its own broker
WitnessTwoBindingsAtOnce ==
    /\ request[1].pc = "handler"
    /\ request[2].pc = "handler"
    /\ request[1].current_broker = 2
    /\ request[2].current_broker = 1
    /\ request[1].instance_id # request[2].instance_id

\* C14: the request carries a binding only after its authentication has
\* succeeded and only until auth_middleware returns: it is there while the
\* handler runs, and gone once the response is returned, after a normal return
\* of the handler and after an exception rendered as an envelope alike.
BindingOnlyDuringHandler ==
    \A r \in Requests :
        /\ request[r].current_broker # 0 =>
              /\ request[r].pc \in {"handler", "raised", "unbind"}
              /\ Resolved(r) # 0
        /\ request[r].pc \in {"handler", "raised"} => request[r].current_broker # 0
        /\ request[r].pc \in {"new", "done"} => request[r].current_broker = 0

WitnessUnboundAfterEnvelope ==
    \E r \in Requests :
        /\ request[r].pc = "done"
        /\ request[r].exc.kind = "AssertionError"
        /\ request[r].response.status = 200
        /\ request[r].response.body.instanceId = request[r].instance_id
        /\ request[r].current_broker = 0

\* -------------------------------------------------------- longbridge, spec
\* LongBridge.__init__ / _on_init: the keeper has loaded a record that is not
\* expired, the client is built with its token, _token_bucket = LeakyBucket(6)
InitRefresh ==
    /\ now = 0
    /\ IdleBucket
    /\ IdleOrder
    /\ IdleGateway
    /\ IdleLater
    /\ auto_refresh_token \in BOOLEAN
    /\ \E d \in 1..MaxDays : loaded = [token |-> 0, expiry |-> d * DaySecs]
    /\ keeper = loaded
    /\ token_file = toml_record(loaded)
    /\ keeper_lock = 0
    /\ lp_config = 0
    /\ refresh_calls = 0
    /\ thread = [t \in Threads |-> IdleThread]
    /\ construction = "ok"
    /\ reading = NoReading

nonKeeper == <<orderVars, gatewayVars, lock, alock, caller, commits, capacity, leak_rate,
               construction, reading, laterVars>>

\* a day passes
TickDay ==
    /\ now < MaxDays * DaySecs
    /\ now' = now + DaySecs
    /\ UNCHANGED <<bucketVars, orderVars, gatewayVars, keeperVars, laterVars>>

\* _try_refresh, lines 176-179: return when auto refresh is off; cfg = self._lp_config
TryRefresh(t) ==
    /\ thread[t].pc = "idle"
    /\ thread' = IF auto_refresh_token
                 THEN [thread EXCEPT ![t].pc = "lock", ![t].cfg = lp_config]
                 ELSE [thread EXCEPT ![t].pc = "done", ![t].outcome = "off"]
    /\ UNCHANGED <<now, used_tokens, last_time, nonKeeper, auto_refresh_token, keeper,
                   keeper_lock, token_file, loaded, lp_config, refresh_calls>>

KeeperLockUnguarded(t) ==
    /\ thread[t].pc = "lock"
    /\ keeper_lock' = t
    /\ thread' = [thread EXCEPT ![t].pc = "check"]
    /\ UNCHANGED <<now, used_tokens, last_time, nonKeeper, auto_refresh_token, keeper,
                   token_file, loaded, lp_config, refresh_calls>>

\* with keeper.lock:
KeeperLock(t) ==
    /\ thread[t].pc = "lock"
    /\ keeper_lock \in {0, t}
    /\ keeper_lock' = t
    /\ thread' = [thread EXCEPT ![t].pc = "check"]
    /\ UNCHANGED <<now, used_tokens, last_time, nonKeeper, auto_refresh_token, keeper,
                   token_file, loaded, lp_config, refresh_calls>>

\* if not keeper.should_refresh: return (the lock is released);
\* now = TimeTools.utc_now(); expiry = TimeTools.timedelta(now, days=90)
CheckShouldRefresh(t) ==
    /\ thread[t].pc = "check"
    /\ IF should_refresh(keeper, now)
       THEN /\ thread' = [thread EXCEPT ![t].pc = "bucket",
                                        ![t].expiry = now + TokenLifetimeDays * DaySecs]
            /\ UNCHANGED keeper_lock
       ELSE /\ thread' = [thread EXCEPT ![t].pc = "done", ![t].outcome = "fresh"]
            /\ keeper_lock' = 0
    /\ UNCHANGED <<now, used_tokens, last_time, nonKeeper, auto_refresh_token, keeper,
                   token_file, loaded, lp_config, refresh_calls>>

\* with self._token_bucket: one attempt of LeakyBucket._consume; a failed one
\* is retried after its sleep, the keeper's lock being held all along
TokenBucketEnter(t) ==
    /\ thread[t].pc = "bucket"
    /\ LET new_used_tokens == get_used_tokens(used_tokens, last_time, leak_rate, now)
       IN  IF admits(new_used_tokens, capacity)
           THEN /\ used_tokens' = new_used_tokens + 1
                /\ last_time' = now
                /\ thread' = [thread EXCEPT ![t].pc = "refresh"]
           ELSE /\ used_tokens' = new_used_tokens
                /\ UNCHANGED <<last_time, thread>>
    /\ UNCHANGED <<now, nonKeeper, auto_refresh_token, keeper, keeper_lock, token_file,
                   loaded, lp_config, refresh_calls>>

\* token = cfg.refresh_access_token() returns the next token of the partner
RefreshReturns(t) ==
    /\ thread[t].pc = "refresh"
    /\ refresh_calls' = refresh_calls + 1
    /\ thread' = [thread EXCEPT ![t].pc = "update", ![t].token = refresh_calls + 1]
    /\ UNCHANGED <<now, used_tokens, last_time, nonKeeper, auto_refresh_token, keeper,
                   keeper_lock, token_file, loaded, lp_config>>

\* cfg.refresh_access_token() raises, or `assert token` does: both with
\* blocks are left and the keeper's lock is released
RefreshRaises(t) ==
    /\ thread[t].pc = "refresh"
    /\ refresh_calls' = refresh_calls + 1
    /\ keeper_lock' = 0
    /\ thread' = [thread EXCEPT ![t].pc = "done", ![t].outcome = "raised"]
    /\ UNCHANGED <<now, used_tokens, last_time, nonKeeper, auto_refresh_token, keeper,
                   token_file, loaded, lp_config>>

UpdateTokenNotReentrant(t) ==
    /\ thread[t].pc = "update"
    /\ keeper_lock = 0
    /\ keeper' = [token |-> thread[t].token, expiry |-> thread[t].expiry]
    /\ token_file' = toml_record(keeper')
    /\ thread' = [thread EXCEPT ![t].pc = "reset"]
    /\ UNCHANGED <<now, used_tokens, last_time, nonKeeper, auto_refresh_token,
                   keeper_lock, loaded, lp_config, refresh_calls>>

\* keeper.update_token(token, expiry): under the keeper's lock, which is
\* re-entrant, the token and the expiry are replaced and the file is written
UpdateToken(t) ==
    /\ thread[t].pc = "update"
    /\ keeper_lock \in {0, t}
    /\ keeper' = [token |-> thread[t].token, expiry |-> thread[t].expiry]
    /\ token_file' = toml_record(keeper')
    /\ thread' = [thread EXCEPT ![t].pc = "reset"]
    /\ UNCHANGED <<now, used_tokens, last_time, nonKeeper, auto_refresh_token,
                   keeper_lock, loaded, lp_config, refresh_calls>>

\* self._reset_client(): a Config with the keeper's token; the keeper's lock
\* is released and _try_refresh returns
ResetClient(t) ==
    /\ thread[t].pc = "reset"
    /\ lp_config' = keeper.token
    /\ keeper_lock' = 0
    /\ thread' = [thread EXCEPT ![t].pc = "done", ![t].outcome = "refreshed"]
    /\ UNCHANGED <<now, used_tokens, last_time, nonKeeper, auto_refresh_token, keeper,
                   token_file, loaded, refresh_calls>>

NextRefresh ==
    \/ TickDay
    \/ \E t \in Threads : TryRefresh(t)
    \/ \E t \in Threads : KeeperLock(t)
    \/ \E t \in Threads : CheckShouldRefresh(t)
    \/ \E t \in Threads : TokenBucketEnter(t)
    \/ \E t \in Threads : RefreshReturns(t)
    \/ \E t \in Threads : RefreshRaises(t)
    \/ \E t \in Threads : UpdateToken(t)
    \/ \E t \in Threads : ResetClient(t)

SpecRefresh == InitRefresh /\ [][NextRefresh]_vars

\* the threads between the test of should_refresh and the end of _reset_client
Refreshing == {t \in Threads : thread[t].pc \in {"bucket", "refresh", "update", "reset"}}

Refreshed == {t \in Threads : thread[t].outcome = "refreshed"}

\* the calls overlap: the clock has not reached the refresh window of a
\* credential refreshed by one of them
Overlapping == now < (TokenLifetimeDays - RefreshWindowDays) * DaySecs

\* C6: with auto refresh on and no refresh call raising, overlapping
\* _try_refresh calls reach the partner's refresh endpoint at most once and
\* persist at most once; the test of should_refresh, the call, update_token
\* and the client reset happen under the keeper's lock; every other caller
\* finds should_refresh false and returns.  When should_refresh held at the
\* start and the clock has not left the loaded credential's refresh window,
\* exactly one of the callers that have all returned has refreshed.
RefreshedByExactlyOneCaller ==
    (auto_refresh_token /\ Overlapping /\ \A t \in Threads : thread[t].outcome # "raised") =>
        /\ refresh_calls <= 1
        /\ Cardinality(Refreshing \cup Refreshed) <= 1
        /\ \A t \in Threads :
              thread[t].pc \in {"check", "bucket", "refresh", "update", "reset"}
                  => keeper_lock = t
        /\ \A t \in Threads :
              thread[t].pc = "done" => thread[t].outcome \in {"fresh", "refreshed"}
        /\ token_file.token <= 1
        /\ token_file = toml_record(loaded) \/ token_file.token = refresh_calls
        /\ keeper_lock = 0 => (token_file = toml_record(keeper) /\ lp_config = keeper.token)
        /\ ( /\ \A t \in Threads : thread[t].pc = "done"
             /\ should_refresh(loaded, 0)
             /\ should_refresh(loaded, now) )
           => /\ refresh_calls = 1
              /\ Cardinality(Refreshed) = 1
              /\ \A t \in Threads \ Refreshed : thread[t].outcome = "fresh"

WitnessOneRefreshedOthersFresh ==
    /\ auto_refresh_token
    /\ \A t \in Threads : thread[t].pc = "done"
    /\ should_refresh(loaded, 0)
    /\ should_refresh(loaded, now)
    /\ now > 0
    /\ thread[NumThreads].outcome = "refreshed"
    /\ \A t \in Threads \ {NumThreads} : thread[t].outcome = "fresh"

\* C37: once the keeper's expiry has passed with no refresh under way, no
\* later operation refreshes it: should_refresh is false in every state with
\* now >= expiry, so no _try_refresh gets past its test, the refresh endpoint
\* and update_token are not called again, the keeper, the file and the client
\* stay as they are, and the credential is expired for the rest of the run.
ExpiredIsNeverRefreshed ==
    /\ [](now >= keeper.expiry => ~should_refresh(keeper, now))
    /\ [][(now >= keeper.expiry /\ Refreshing = {}) =>
             /\ Refreshing' = {}
             /\ refresh_calls' = refresh_calls
             /\ keeper' = keeper
             /\ token_file' = token_file
             /\ lp_config' = lp_config
             /\ is_expired(keeper', now')]_vars

\* auto refresh is on and the loaded credential was inside its refresh window
\* from the start, so a test made before its expiry would have refreshed it;
\* the expiry has passed, and a _try_refresh has returned without refreshing
WitnessExpiredAndLeftAlone ==
    /\ auto_refresh_token
    /\ should_refresh(loaded, 0)
    /\ now >= keeper.expiry
    /\ keeper = loaded
    /\ refresh_calls = 0
    /\ \E t \in Threads : thread[t].pc = "done" /\ thread[t].outcome = "fresh"

\* ------------------------------------------------------- TokenKeeper, spec
MaxUpdates == 2      \* calls of update_token in all

\* The clock visits the first two seconds and the instants one second before
\* and at the start of the days 1..MaxDays and of the days on which a
\* credential issued in the first day enters its refresh window and expires.
KeeperDays ==
    (1..MaxDays) \cup ((TokenLifetimeDays - RefreshWindowDays)..(TokenLifetimeDays + 1))

Instants == {0, 1} \cup {d * DaySecs + o : d \in KeeperDays, o \in {-1, 0}}

\* the expiry of the record in the token file when the process starts
FileExpiries == {0, 1} \cup {d * DaySecs : d \in 1..MaxDays}

nonTokenKeeper == <<bucketVars, orderVars, gatewayVars, auto_refresh_token, lp_config,
                    laterVars>>

\* a token file exists; no TokenKeeper has been constructed from it
InitKeeper ==
    /\ now = 0
    /\ IdleBucket
    /\ IdleOrder
    /\ IdleGateway
    /\ IdleLater
    /\ auto_refresh_token = FALSE
    /\ \E tok \in {Missing, Empty, 0}, e \in FileExpiries :
          token_file = [token |-> tok, expiry |-> isoformat(e)]
    /\ keeper = NoKeeper
    /\ loaded = NoKeeper
    /\ keeper_lock = 0
    /\ lp_config = 0
    /\ refresh_calls = 0
    /\ thread = [t \in Threads |-> IdleThread]
    /\ construction = "none"
    /\ reading = NoReading

\* the clock reaches its next instant; what was read before is out of date
Pass ==
    /\ \E i \in Instants :
          /\ i > now
          /\ \A j \in Instants : j > now => i <= j
          /\ now' = i
    /\ reading' = NoReading
    /\ UNCHANGED <<nonTokenKeeper, keeper, keeper_lock, token_file, loaded, refresh_calls,
                   thread, construction>>

LoadWithoutExpiryTest ==
    /\ construction = "none"
    /\ LET d == token_file
       IN  IF ~truthy(d.token)
           THEN /\ construction' = "AssertionError"
                /\ UNCHANGED <<keeper, loaded>>
           ELSE /\ construction' = "ok"
                /\ keeper' = [token |-> d.token, expiry |-> fromisoformat(d.expiry)]
                /\ loaded' = keeper'
    /\ UNCHANGED <<now, nonTokenKeeper, keeper_lock, token_file, refresh_calls, thread, reading>>

\* TokenKeeper.__init__(token_file): an exception leaves no object behind
Load ==
    /\ construction = "none"
    /\ LET d == token_file
           k == [token |-> d.token, expiry |-> fromisoformat(d.expiry)]
       IN  IF ~truthy(d.token)
           THEN /\ construction' = "AssertionError"
                /\ UNCHANGED <<keeper, loaded>>
           ELSE IF is_expired(k, now)
           THEN /\ construction' = "ValueError"
                /\ UNCHANGED <<keeper, loaded>>
           ELSE /\ construction' = "ok"
                /\ keeper' = k
                /\ loaded' = k
    /\ UNCHANGED <<now, nonTokenKeeper, keeper_lock, token_file, refresh_calls, thread, reading>>

\* a thread reads keeper.is_expired and keeper.should_refresh
ReadKeeper ==
    /\ construction = "ok"
    /\ reading' = [at |-> now, token |-> 0, expiry |-> keeper.expiry,
                   is_expired |-> is_expired(keeper, now),
                   should_refresh |-> should_refresh(keeper, now),
                   read |-> TRUE]
    /\ UNCHANGED <<now, nonTokenKeeper, keeper, keeper_lock, token_file, loaded,
                   refresh_calls, thread, construction>>

\* keeper.update_token(token, expiry) is called with the token the partner
\* issued, or with '', and an expiry 90 days ahead; lines 62-64
UpdateTokenCall(t) ==
    /\ construction = "ok"
    /\ thread[t].pc = "idle"
    /\ refresh_calls < MaxUpdates
    /\ now <= MaxDays * DaySecs
    /\ refresh_calls' = refresh_calls + 1
    /\ \E token \in {Empty, refresh_calls + 1} :
          thread' = [thread EXCEPT ![t] =
              [pc |-> IF truthy(token) THEN "with_lock" ELSE "idle",
               cfg |-> 0,
               expiry |-> IF truthy(token) THEN now + TokenLifetimeDays * DaySecs ELSE 0,
               token |-> IF truthy(token) THEN token ELSE 0,
               outcome |-> IF truthy(token) THEN "none" ELSE "AssertionError"]]
    /\ UNCHANGED <<now, nonTokenKeeper, keeper, keeper_lock, token_file, loaded,
                   construction, reading>>

\* with self.lock:
UpdateTokenLock(t) ==
    /\ thread[t].pc = "with_lock"
    /\ keeper_lock \in {0, t}
    /\ keeper_lock' = t
    /\ thread' = [thread EXCEPT ![t].pc = "token"]
    /\ UNCHANGED <<now, nonTokenKeeper, keeper, token_file, loaded, refresh_calls,
                   construction, reading>>

\* self.token = token
UpdateTokenSetToken(t) ==
    /\ thread[t].pc = "token"
    /\ keeper' = [keeper EXCEPT !.token = thread[t].token]
    /\ thread' = [thread EXCEPT ![t].pc = "expiry"]
    /\ UNCHANGED <<now, nonTokenKeeper, keeper_lock, token_file, loaded, refresh_calls,
                   construction, reading>>

\* self.expiry = expiry
UpdateTokenSetExpiry(t) ==
    /\ thread[t].pc = "expiry"
    /\ keeper' = [keeper EXCEPT !.expiry = thread[t].expiry]
    /\ thread' = [thread EXCEPT ![t].pc = "write"]
    /\ UNCHANGED <<now, nonTokenKeeper, keeper_lock, token_file, loaded, refresh_calls,
                   construction, reading>>

UpdateTokenReturnsUnwritten(t) ==
    /\ thread[t].pc = "write"
    /\ token_file' = token_file
    /\ keeper_lock' = 0
    /\ thread' = [thread EXCEPT ![t] = [IdleThread EXCEPT !.outcome = "returned"]]
    /\ UNCHANGED <<now, nonTokenKeeper, keeper, loaded, refresh_calls, construction, reading>>

\* lines 68-73: the record is built from self.token and self.expiry and
\* written; the lock is released and update_token returns
UpdateTokenWrite(t) ==
    /\ thread[t].pc = "write"
    /\ token_file' = toml_record(keeper)
    /\ keeper_lock' = 0
    /\ thread' = [thread EXCEPT ![t] = [IdleThread EXCEPT !.outcome = "returned"]]
    /\ UNCHANGED <<now, nonTokenKeeper, keeper, loaded, refresh_calls, construction, reading>>

UpdateTokenWriteRaisesRollsBack(t) ==
    /\ thread[t].pc = "write"
    /\ keeper' = [token |-> token_file.token, expiry |-> fromisoformat(token_file.expiry)]
    /\ keeper_lock' = 0
    /\ thread' = [thread EXCEPT ![t] = [IdleThread EXCEPT !.outcome = "OSError"]]
    /\ UNCHANGED <<now, nonTokenKeeper, token_file, loaded, refresh_calls,
                   construction, reading>>

\* LocateTools.write_file raises: the lock is released, the file is as it was
UpdateTokenWriteRaises(t) ==
    /\ thread[t].pc = "write"
    /\ keeper_lock' = 0
    /\ thread' = [thread EXCEPT ![t] = [IdleThread EXCEPT !.outcome = "OSError"]]
    /\ UNCHANGED <<now, nonTokenKeeper, keeper, token_file, loaded, refresh_calls,
                   construction, reading>>

\* one thread constructs the keeper and uses it over the credential's life
NextKeeper ==
    \/ Pass
    \/ Load
    \/ ReadKeeper
    \/ UpdateTokenCall(1)
    \/ UpdateTokenLock(1)
    \/ UpdateTokenSetToken(1)
    \/ UpdateTokenSetExpiry(1)
    \/ UpdateTokenWrite(1)
    \/ UpdateTokenWriteRaises(1)

SpecKeeper == InitKeeper /\ [][NextKeeper]_vars

\* a keeper constructed from a record that is not expired
InitUpdate ==
    /\ now = 0
    /\ IdleBucket
    /\ IdleOrder
    /\ IdleGateway
    /\ IdleLater
    /\ auto_refresh_token = FALSE
    /\ \E d \in 1..MaxDays : loaded = [token |-> 0, expiry |-> d * DaySecs]
    /\ keeper = loaded
    /\ token_file = toml_record(loaded)
    /\ keeper_lock = 0
    /\ lp_config = 0
    /\ refresh_calls = 0
    /\ thread = [t \in Threads |-> IdleThread]
    /\ construction = "ok"
    /\ reading = NoReading

\* several threads call update_token of the one keeper
NextUpdate ==
    \/ TickDay
    \/ \E t \in Threads : UpdateTokenCall(t)
    \/ \E t \in Threads : UpdateTokenLock(t)
    \/ \E t \in Threads : UpdateTokenSetToken(t)
    \/ \E t \in Threads : UpdateTokenSetExpiry(t)
    \/ \E t \in Threads : UpdateTokenWrite(t)
    \/ \E t \in Threads : UpdateTokenWriteRaises(t)

SpecUpdate == InitUpdate /\ [][NextUpdate]_vars

\* the in-memory record is the one in the file
SameRecord ==
    /\ token_file.token = keeper.token
    /\ fromisoformat(token_file.expiry) = keeper.expiry

\* the threads inside the `with self.lock` block of update_token
Updating == {t \in Threads : thread[t].pc \in {"token", "expiry", "write"}}

\* C16: when update_token(token, expiry) returns without raising, the keeper
\* holds that token and expiry and the file holds the same two; updates of one
\* keeper, concurrent ones included, run one at a time, so that whenever none
\* is under way after such a return the in-memory record and the persisted
\* record are those of one update, the last.
MemoryAndFileOfTheSameUpdate ==
    /\ [][\A t \in Threads :
            (thread[t].pc = "write" /\ thread'[t].outcome = "returned") =>
                /\ keeper' = [token |-> thread[t].token, expiry |-> thread[t].expiry]
                /\ token_file'.token = thread[t].token
                /\ fromisoformat(token_file'.expiry) = thread[t].expiry
                /\ keeper_lock' = 0]_vars
    /\ [][(keeper' # keeper \/ token_file' # token_file) =>
            (keeper_lock # 0 /\ thread'[keeper_lock] # thread[keeper_lock])]_vars
    /\ [][(keeper_lock = 0 /\ SameRecord /\ keeper_lock' = 0) => SameRecord']_vars
    /\ [](/\ Cardinality(Updating) <= 1
          /\ \A t \in Updating : keeper_lock = t)

\* two overlapping updates have returned, the one with the token issued first
\* last
WitnessLastUpdateInMemoryAndFile ==
    /\ \E t, u \in Threads :
          /\ t # u
          /\ thread[t] = [IdleThread EXCEPT !.outcome = "returned"]
          /\ thread[u] = [IdleThread EXCEPT !.outcome = "returned"]
    /\ refresh_calls >= 2
    /\ keeper.token = 1
    /\ keeper_lock = 0
    /\ SameRecord

\* C17: should_refresh is true exactly when now < expiry and
\* now >= expiry - 3 days, and false once now >= expiry; is_expired is true
\* exactly when now >= expiry.
ShouldRefreshIffInLastThreeDays ==
    reading.read =>
        /\ reading.should_refresh <=>
              (reading.at < reading.expiry /\ reading.at >= reading.expiry - 3 * 86400)
        /\ reading.is_expired <=> reading.at >= reading.expiry
        /\ reading.at >= reading.expiry => ~reading.should_refresh

\* read at the very instant of expiry
WitnessNoRefreshAtExpiry ==
    /\ reading.read
    /\ reading.at = reading.expiry
    /\ reading.is_expired
    /\ ~reading.should_refresh

\* what was read is the record of an update_token that has returned
ReadAfterUpdate ==
    /\ thread[1] = [IdleThread EXCEPT !.outcome = "returned"]
    /\ keeper.token >= 1
    /\ reading.read
    /\ reading.expiry = keeper.expiry

\* C18: right after update_token with an expiry 90 days ahead should_refresh
\* is false; with no further update it is false at every instant before
\* expiry - 3 days and true at every instant from then until the expiry.
FreshAfterUpdateUntilLastThreeDays ==
    ReadAfterUpdate =>
        /\ reading.at = keeper.expiry - 90 * 86400 => ~reading.should_refresh
        /\ reading.at < keeper.expiry - 3 * 86400 => ~reading.should_refresh
        /\ (reading.at >= keeper.expiry - 3 * 86400 /\ reading.at < keeper.expiry)
              => reading.should_refresh

\* the clock has just reached expiry - 3 days of an updated credential
WitnessDueThreeDaysBeforeExpiry ==
    /\ ReadAfterUpdate
    /\ reading.at = keeper.expiry - 3 * 86400
    /\ reading.should_refresh

\* C19: constructing a TokenKeeper from the persisted record fails, and
\* leaves no keeper to use, when the token is missing or empty or the expiry
\* is at or before the current time; it succeeds only for a non-empty token
\* with an expiry in the future.
ConstructionFailsUnlessValid ==
    /\ [][(construction = "none" /\ construction' # "none") =>
            LET valid == /\ token_file.token \notin {Missing, Empty}
                         /\ fromisoformat(token_file.expiry) > now
            IN  /\ construction' = "ok" <=> valid
                /\ construction' = "ok" =>
                      /\ keeper'.token = token_file.token
                      /\ keeper'.expiry = fromisoformat(token_file.expiry)
                /\ construction' # "ok" => keeper' = NoKeeper]_vars
    /\ [](construction \notin {"none", "ok"} =>
            /\ keeper = NoKeeper
            /\ ~reading.read
            /\ refresh_calls = 0
            /\ \A t \in Threads : thread[t] = IdleThread)

\* the record's expiry is the very instant of the construction
WitnessExpiredAtLoad ==
    /\ construction = "ValueError"
    /\ token_file.token = 0
    /\ fromisoformat(token_file.expiry) = now
    /\ now > 0
    /\ keeper = NoKeeper

\* C38: update_token is not all-or-nothing: the token and the expiry are
\* replaced in memory before the file is written, so a thread about to write
\* already has the keeper holding its token and expiry, and when the write
\* raises, the keeper keeps them while the file keeps the record it had.
UpdateTokenNotAllOrNothing ==
    /\ [](\A t \in Threads :
            thread[t].pc = "write" =>
                /\ keeper = [token |-> thread[t].token, expiry |-> thread[t].expiry]
                /\ token_file.token # thread[t].token)
    /\ [][\A t \in Threads :
            (thread[t].pc = "write" /\ thread'[t].outcome = "OSError") =>
                /\ keeper' = [token |-> thread[t].token, expiry |-> thread[t].expiry]
                /\ token_file' = token_file
                /\ ~SameRecord'
                /\ keeper_lock' = 0]_vars

\* an update has raised while persisting and none is under way: the keeper
\* holds the token of the failed update, the file the record loaded at the
\* start
WitnessMemoryAheadOfFile ==
    /\ \E t \in Threads : thread[t] = [IdleThread EXCEPT !.outcome = "OSError"]
    /\ \A t \in Threads : thread[t].pc = "idle"
    /\ keeper_lock = 0
    /\ keeper.token >= 1
    /\ keeper.expiry > loaded.expiry
    /\ token_file = toml_record(loaded)

\* ---------------------------------------------------- model.Contract, spec
InitContract ==
    /\ now = 0
    /\ IdleBucket
    /\ IdleGateway
    /\ IdleKeeper
    /\ IdleLater
    /\ IdleOrder

\* a == b and the two hashes, for a Contract and any value, either way
\* round.  A comparison neither reads nor changes the dict: the comparisons are
\* made before the dict is first used.
Compare ==
    /\ ib_contracts = {}
    /\ \E a \in Contracts, b \in Contracts \cup Tuples, swap \in BOOLEAN :
          LET x == IF swap THEN b ELSE a
              y == IF swap THEN a ELSE b
          IN  observed' = [op |-> "eq", a |-> x, b |-> y, eq |-> py_eq(x, y),
                           hash_a |-> py_hash(x), hash_b |-> py_hash(y)]
    /\ UNCHANGED <<ib_contracts, order, derived, wire, nonOrder>>

\* InteractiveBrokers.contract_to_ib_contract(contract), under self._lock: the
\* cached value when `contract in self._ib_contracts`, else a new one is stored
ContractToIbContract ==
    /\ \E contract \in Contracts :
          LET found == dict_find(ib_contracts, contract)
          IN  IF found # {}
              THEN /\ observed' = [op |-> "get", key |-> contract, hit |-> TRUE,
                                   value |-> (CHOOSE e \in found : TRUE).value]
                   /\ UNCHANGED ib_contracts
              ELSE /\ observed' = [op |-> "get", key |-> contract, hit |-> FALSE,
                                   value |-> contract.id]
                   /\ ib_contracts' = ib_contracts \cup {[key |-> contract, value |-> contract.id]}
    /\ UNCHANGED <<order, derived, wire, nonOrder>>

NextContract ==
    \/ Compare
    \/ ContractToIbContract

SpecContract == InitContract /\ [][NextContract]_vars

\* C20: two Contracts are equal exactly when their (trade_type, symbol,
\* region) triples are equal, equal Contracts have equal hashes, a Contract
\* and a value that is not a Contract are never equal, and a dict keyed by
\* Contract holds one entry for all the Contracts of one triple.
ContractEqualityByTriple ==
    /\ observed.op = "eq" =>
          LET a == observed.a
              b == observed.b
          IN  /\ (a.kind = "Contract" /\ b.kind = "Contract") =>
                    /\ observed.eq <=>
                          /\ a.trade_type = b.trade_type
                          /\ a.symbol = b.symbol
                          /\ a.region = b.region
                    /\ observed.eq => observed.hash_a = observed.hash_b
              /\ (a.kind # "Contract" \/ b.kind # "Contract") => ~observed.eq
    /\ \A e, f \in ib_contracts :
          ( /\ e.key.trade_type = f.key.trade_type
            /\ e.key.symbol = f.key.symbol
            /\ e.key.region = f.key.region ) => e = f
    /\ observed.op = "get" =>
          \E e \in ib_contracts :
              /\ e.value = observed.value
              /\ e.key.trade_type = observed.key.trade_type
              /\ e.key.symbol = observed.key.symbol
              /\ e.key.region = observed.key.region
              /\ e.key.id # observed.key.id => observed.hit

\* a Contract constructed apart from the dict's key finds the key's entry
WitnessSeparateContractSameKey ==
    /\ observed.op = "get"
    /\ observed.hit
    /\ observed.key.region = "HK"
    /\ \E e \in ib_contracts :
          /\ e.key.region = "HK"
          /\ e.key.id # observed.key.id
          /\ e.value = observed.value
    /\ Cardinality(ib_contracts) = Cardinality(Triples)

\* ------------------------------------------------------- broker/base, spec
nonRegister == <<now, bucketVars, orderVars, gatewayVars, keeperVars, app, with_block, moreVars>>

\* the module httptrading.broker.base is imported: both maps are empty
InitRegister ==
    /\ now = 0
    /\ IdleBucket
    /\ IdleOrder
    /\ IdleGateway
    /\ IdleKeeper
    /\ IdleRegister
    /\ IdleLifecycle
    /\ IdleWith
    /\ IdleMore

\* BrokerRegister.register(broker_class, name, display, detect_pkg), as the
\* decorator broker_register calls it
Register ==
    /\ \E broker_class \in Classes, label \in Labels, detect_pkg \in Probes :
          LET r == register(D, META, broker_class, label[1], label[2], detect_pkg)
          IN  /\ D' = r.D
              /\ META' = r.META
              /\ registered' = [class |-> broker_class.name, module |-> broker_class.module,
                                raised |-> r.raised]
    /\ UNCHANGED <<instance, imported, nonRegister>>

\* Futu(broker_args, instance_id, tokens), Tiger(...), ...: the import the
\* probe names succeeds or fails
Construct ==
    /\ \E broker_class \in Classes, broker_args \in BrokerArgs, instance_id \in InstanceIdArgs,
          tokens \in TokenLists, importable \in BOOLEAN :
          LET r == Adapter_init(META, broker_class, broker_args, instance_id, tokens, importable)
          IN  /\ instance' = r.self
              /\ imported' = r.imported
    /\ UNCHANGED <<D, META, registered, nonRegister>>

NextRegister ==
    \/ Register
    \/ Construct

SpecRegister == InitRegister /\ [][NextRegister]_vars

\* C21: register of a class whose __name__ is already registered raises and
\* leaves _D and _META as they were; no call changes or removes an entry
\* there is, so that the metadata of a name stays that of its first
\* registration.
RegisterIsWriteOncePerName ==
    /\ [](/\ DOMAIN D = DOMAIN META
          /\ registered.raised # NoExc =>
                /\ registered.raised.kind = "ValueError"
                /\ registered.class \in DOMAIN D
          /\ (registered # NoCall /\ registered.raised = NoExc) =>
                D[registered.class] = [name |-> registered.class, module |-> registered.module])
    /\ [][/\ \A n \in DOMAIN D : n \in DOMAIN D' /\ D'[n] = D[n]
          /\ \A n \in DOMAIN META : n \in DOMAIN META' /\ META'[n] = META[n]
          /\ (registered' # registered /\ registered'.class \in DOMAIN D) =>
                /\ registered'.raised.kind = "ValueError"
                /\ D' = D
                /\ META' = META]_vars

\* another class of the same __name__ was refused, and the first one is there
WitnessSecondClassOfTheNameRefused ==
    /\ registered.raised.kind = "ValueError"
    /\ registered.class = "Futu"
    /\ D["Futu"].module # registered.module
    /\ META["Futu"].detect_package # NoPkg
    /\ "Tiger" \in DOMAIN META

\* C22: when the registered metadata of the class configures a probe and its
\* import fails, the constructor raises the ImportError that names the package
\* to install, having set none of broker_args, instance_id, tokens and created
\* no vendor client; without a probe nothing is imported and the constructor
\* goes on to set them.
ProbeFailureFailsConstructionFirst ==
    (instance.class # "none" /\ instance.raised.kind # "AttributeError") =>
        LET pkg_info == META[instance.class].detect_package
        IN  /\ pkg_info = NoPkg =>
                  /\ imported = <<>>
                  /\ instance.raised.kind # "ImportError"
                  /\ {"broker_args", "instance_id", "tokens"} \subseteq instance.attrs
            /\ pkg_info # NoPkg =>
                  /\ Len(imported) = 1
                  /\ imported[1].name = pkg_info.import_name
                  /\ imported[1].ImportError =>
                        /\ instance.raised.kind = "ImportError"
                        /\ instance.raised.msg = pkg_info.pkg_name
                        /\ instance.attrs = {}
                        /\ ~instance.client
                  /\ ~imported[1].ImportError =>
                        /\ instance.raised.kind # "ImportError"
                        /\ {"broker_args", "instance_id", "tokens"} \subseteq instance.attrs

\* the import of futu failed: the error names futu-api, nothing is set
WitnessMissingPackageNamed ==
    /\ instance.class = "Futu"
    /\ instance.raised.kind = "ImportError"
    /\ instance.raised.msg = "futu-api"
    /\ imported = <<[name |-> "futu", ImportError |-> TRUE]>>
    /\ instance.attrs = {}

\* ------------------------------------------ http_server.run, the two signals
\* the broker objects run() is given: InteractiveBrokers overrides start
\* (which connects) and shutdown (which disconnects), Futu overrides start,
\* Tiger and LongBridge inherit both from BaseBroker, where they are `pass`
RunPool ==
    { [instance_id |-> "inst_a", tokens |-> {Token(16)}, broker_name |-> "interactiveBrokers"],
      [instance_id |-> "inst_b", tokens |-> {Token(16)}, broker_name |-> "futu"],
      [instance_id |-> "inst_c", tokens |-> {Token(64)}, broker_name |-> "tiger"],
      [instance_id |-> "inst_d", tokens |-> {Token(64)}, broker_name |-> "longBridge"] }

RunLists ==
    {l \in UNION {[1..n -> RunPool] : n \in 0..MaxBrokers} :
        \A i, j \in DOMAIN l : i # j => l[i] # l[j]}

\* what `await broker.start()` and `await broker.shutdown()` can raise
StartRaisable(b) ==
    CASE b.broker_name = "interactiveBrokers" -> {"ConnectionRefusedError", "TimeoutError"}
      [] b.broker_name = "futu" -> {"ImportError"}
      [] OTHER -> {}

ShutdownRaisable(b) ==
    CASE b.broker_name = "interactiveBrokers" -> {"ConnectionError", "OSError"}
      [] OTHER -> {}

\* the calls of `op` made so far
CallsOf(op) == {k \in DOMAIN app.calls : app.calls[k].op = op}

nonLifecycle == <<now, bucketVars, orderVars, keeperVars, registerVars, with_block, moreVars>>

\* run(host, port, brokers) has appended the two handlers to the signals
InitLifecycle ==
    /\ now = 0
    /\ IdleBucket
    /\ IdleOrder
    /\ IdleKeeper
    /\ IdleRegister
    /\ IdleWith
    /\ IdleMore
    /\ IdleGateway
    /\ \E brokers \in RunLists : app = [phase |-> "new", brokers |-> brokers, calls |-> <<>>]

\* _on_startup, up to the loop: HttpTradingView.set_brokers(brokers)
OnStartup ==
    /\ app.phase = "new"
    /\ BROKERS' = app.brokers
    /\ app' = [app EXCEPT !.phase = IF app.brokers = <<>> THEN "serving" ELSE "startup"]
    /\ UNCHANGED <<request, nonLifecycle>>

\* _on_startup, the loop: `await broker.start()` returns for the next broker
StartReturns ==
    /\ app.phase = "startup"
    /\ LET i == Cardinality(CallsOf("start")) + 1
       IN  app' = [app EXCEPT
               !.calls = Append(@, [op |-> "start", broker |-> i, raised |-> None]),
               !.phase = IF i = Len(app.brokers) THEN "serving" ELSE "startup"]
    /\ UNCHANGED <<gatewayVars, nonLifecycle>>

\* _on_startup, the loop: `await broker.start()` raises, which ends the loop
\* and the handler (the application does not start)
StartRaises ==
    /\ app.phase = "startup"
    /\ LET i == Cardinality(CallsOf("start")) + 1
       IN  \E e \in StartRaisable(app.brokers[i]) :
              app' = [app EXCEPT
                  !.calls = Append(@, [op |-> "start", broker |-> i, raised |-> e]),
                  !.phase = "startup raised"]
    /\ UNCHANGED <<gatewayVars, nonLifecycle>>

\* the application is stopped: the shutdown signal is sent
OnShutdown ==
    /\ app.phase = "serving"
    /\ app' = [app EXCEPT !.phase = IF app.brokers = <<>> THEN "stopped" ELSE "shutdown"]
    /\ UNCHANGED <<gatewayVars, nonLifecycle>>

\* _on_shutdown, the loop: `await broker.shutdown()` returns for the next broker
ShutdownReturns ==
    /\ app.phase = "shutdown"
    /\ LET i == Cardinality(CallsOf("shutdown")) + 1
       IN  app' = [app EXCEPT
               !.calls = Append(@, [op |-> "shutdown", broker |-> i, raised |-> None]),
               !.phase = IF i = Len(app.brokers) THEN "stopped" ELSE "shutdown"]
    /\ UNCHANGED <<gatewayVars, nonLifecycle>>

\* _on_shutdown, the loop: `await broker.shutdown()` raises, which ends the
\* loop and the handler
ShutdownRaises ==
    /\ app.phase = "shutdown"
    /\ LET i == Cardinality(CallsOf("shutdown")) + 1
       IN  \E e \in ShutdownRaisable(app.brokers[i]) :
              app' = [app EXCEPT
                  !.calls = Append(@, [op |-> "shutdown", broker |-> i, raised |-> e]),
                  !.phase = "shutdown raised"]
    /\ UNCHANGED <<gatewayVars, nonLifecycle>>

NextLifecycle ==
    \/ OnStartup
    \/ StartReturns
    \/ StartRaises
    \/ OnShutdown
    \/ ShutdownReturns
    \/ ShutdownRaises

SpecLifecycle == InitLifecycle /\ [][NextLifecycle]_vars

\* C25: once the startup handler is over, start() has been invoked on every
\* configured broker, also on those after one whose start() raised.
StartupStartsEveryBroker ==
    app.phase \in {"serving", "startup raised", "shutdown", "shutdown raised", "stopped"} =>
        \A i \in 1..Len(app.brokers) :
            \E k \in CallsOf("start") : app.calls[k].broker = i

\* C26: once the shutdown handler is over, shutdown() has been invoked on
\* every configured broker, in the order of the list, also on those after one
\* whose shutdown() raised.
ShutdownReachesEveryBroker ==
    app.phase \in {"shutdown raised", "stopped"} =>
        LET made == SelectSeq(app.calls, LAMBDA c : c.op = "shutdown")
        IN  /\ Len(made) = Len(app.brokers)
            /\ \A i \in 1..Len(made) : made[i].broker = i

\* ------------------------------------------------- http_server, the views
\* One request is followed through its view: the code of the view before the
\* broker operation, the operation (through call_sync / call_async), and the
\* serialization of the result in response_api.
TradeTypes == {"Securities", "Cryptocurrencies", "Indexes", "Currencies", "Yields"}

OrderTypes == {"Limit", "Market"}

Views == {"market/quote", "order/place", "order/state", "order/cancel", "position/state"}

\* the query or the JSON body of a request: "--" and "" are the defaults the
\* views read for a key that is absent
ParamsOf(view) ==
    LET codes == {[symbol |-> "AAPL", ticker |-> "--"], [symbol |-> "--", ticker |-> "AAPL"],
                  [symbol |-> "--", ticker |-> "--"]}
        none == [tradeType |-> "--", region |-> "--", symbol |-> "--", ticker |-> "--",
                 orderType |-> "", orderId |-> ""]
    IN  CASE view = "market/quote" ->
                { [none EXCEPT !.tradeType = tt, !.region = "US",
                               !.symbol = c.symbol, !.ticker = c.ticker] :
                     tt \in {"Securities", "--"}, c \in codes }
          [] view = "order/place" ->
                { [none EXCEPT !.tradeType = tt, !.region = "US",
                               !.symbol = c.symbol, !.ticker = c.ticker, !.orderType = ot] :
                     tt \in {"Securities", "--"}, c \in codes, ot \in {"Limit", ""} }
          [] view = "order/cancel" -> { [none EXCEPT !.orderId = id] : id \in {"", "X1"} }
          [] OTHER -> { [none EXCEPT !.orderId = "X1"] }

NoParams ==
    [tradeType |-> "", region |-> "", symbol |-> "", ticker |-> "", orderType |-> "",
     orderId |-> ""]

NoContract == [trade_type |-> "", symbol |-> "", region |-> ""]

Raised(kind, msg) == [kind |-> kind, broker |-> 0, msg |-> msg]

\* the __init__ the dataclass Contract generates, called with keywords: its
\* parameters are the fields trade_type, symbol, region
Contract_init(kwargs) ==
    IF \E k \in DOMAIN kwargs : k \notin {"trade_type", "symbol", "region"}
    THEN [raised |-> Raised("TypeError", "unexpected keyword argument"), contract |-> NoContract]
    ELSE IF DOMAIN kwargs # {"trade_type", "symbol", "region"}
    THEN [raised |-> Raised("TypeError", "missing required argument"), contract |-> NoContract]
    ELSE [raised |-> NoExc,
          contract |-> [trade_type |-> kwargs.trade_type, symbol |-> kwargs.symbol,
                        region |-> kwargs.region]]

\* HttpTradingView.get_contract
get_contract(params) ==
    IF params.tradeType \notin TradeTypes
    THEN [raised |-> Raised("KeyError", "'--'"), contract |-> NoContract]
    ELSE Contract_init([trade_type |-> params.tradeType, region |-> params.region,
                        ticker |-> params.ticker])

\* the code of a view before its broker operation: what it raises, and the
\* Contract it has built
prepare(view, params) ==
    CASE view = "market/quote" -> get_contract(params)
      [] view = "order/place" ->
            LET c == get_contract(params)
            IN  IF c.raised # NoExc THEN c
                ELSE IF params.orderType \notin OrderTypes
                THEN [raised |-> Raised("KeyError", "''"), contract |-> NoContract]
                ELSE c
      [] view = "order/cancel" ->
            [raised |-> IF params.orderId = "" THEN Raised("AssertionError", "") ELSE NoExc,
             contract |-> NoContract]
      [] OTHER -> [raised |-> NoExc, contract |-> NoContract]

\* the broker operation of a view
operation(view) ==
    CASE view = "market/quote" -> "quote"
      [] view = "order/place" -> "place_order"
      [] view = "order/state" -> "order"
      [] view = "order/cancel" -> "cancel_order"
      [] view = "position/state" -> "positions"

NoValue == [type |-> "none"]

\* a Contract an adapter has built (InteractiveBrokers.ib_contract_to_contract)
BuiltContract == [trade_type |-> "Securities", symbol |-> "AAPL", region |-> "US"]

\* what the operation returns when it returns
Returnable(op) ==
    CASE op = "quote" -> {[type |-> "Quote", contract |-> BuiltContract]}
      [] op = "place_order" -> {[type |-> "str"]}
      [] op = "order" -> {[type |-> "Order"]}
      [] op = "cancel_order" -> {[type |-> "None"]}
      [] op = "positions" -> {[type |-> "list", items |-> <<>>],
                              [type |-> "list",
                               items |-> <<[type |-> "Position", contract |-> BuiltContract]>>]}

\* what the callable given to call_sync, or the coroutine given to
\* call_async, does: it returns a value or raises
Outcomes(op) ==
    {[raised |-> NoExc, value |-> v] : v \in Returnable(op)}
        \cup {[raised |-> Raised(k, "ex"), value |-> NoValue] : k \in {"ValueError", "TimeoutError"}}

call_sync_reraises(brokers, self, f) == f

\* BaseBroker.call_sync of the broker at index `self`
call_sync(brokers, self, f) ==
    IF f.raised # NoExc
    THEN [raised |-> [kind |-> "BrokerError", broker |-> self,
                      msg |-> broker_error_str(brokers[self])],
          value |-> NoValue]
    ELSE f

\* BaseBroker.call_async
call_async(brokers, self, coro) ==
    IF coro.raised # NoExc
    THEN [raised |-> [kind |-> "BrokerError", broker |-> self,
                      msg |-> broker_error_str(brokers[self])],
          value |-> NoValue]
    ELSE coro

\* HttpTradingView.json_default, the Contract branch: it reads obj.trade_type,
\* obj.region and obj.ticker
json_default_Contract(obj) ==
    IF {"trade_type", "region", "ticker"} \subseteq DOMAIN obj
    THEN NoExc
    ELSE Raised("AttributeError", "'Contract' object has no attribute 'ticker'")

\* HttpTradingView.dumps of the result: what it raises
dumps_raises(value) ==
    CASE value.type = "Quote" -> json_default_Contract(value.contract)
      [] value.type = "list" ->
            IF value.items = <<>> THEN NoExc ELSE json_default_Contract(value.items[1].contract)
      [] OTHER -> NoExc

NewViewRequest(view) ==
    [pc |-> "new", instance_id |-> "", token |-> NoToken, current_broker |-> 0,
     exc |-> NoExc, response |-> NoResponse,
     view |-> view, at |-> "view", params |-> NoParams, contract |-> NoContract,
     calls |-> <<>>, returned |-> NoValue, result |-> NoValue, raised_at |-> "none"]

\* the application serves: a request whose path matches a route arrives
InitView ==
    /\ now = 0
    /\ IdleBucket
    /\ IdleOrder
    /\ IdleKeeper
    /\ IdleLater
    /\ BROKERS \in BrokerLists
    /\ \E view \in Views :
          request = [r \in Requests |-> IF r = 1 THEN NewViewRequest(view) ELSE NewRequest]

\* the view up to its broker operation: PlaceOrderView.post lines 125-135,
\* QuoteView.get lines 203-204, CancelOrderView.post lines 164-167, ...
ViewPrepares(r) ==
    /\ request[r].pc = "handler"
    /\ request[r].at = "view"
    /\ current_broker(r) # 0
    /\ \E params \in ParamsOf(request[r].view) :
          LET p == prepare(request[r].view, params)
          IN  request' = [request EXCEPT
                  ![r].params = params,
                  ![r].contract = p.contract,
                  ![r].exc = p.raised,
                  ![r].raised_at = IF p.raised # NoExc THEN "view" ELSE "none",
                  ![r].pc = IF p.raised # NoExc THEN "raised" ELSE "handler",
                  ![r].at = IF p.raised # NoExc THEN "view" ELSE "operation"]
    /\ UNCHANGED <<BROKERS, nonGateway>>

\* `await broker.quote(contract)`, `await broker.place_order(...)`, ...: the
\* adapter runs the operation through call_sync or call_async
BrokerOperation(r) ==
    /\ request[r].pc = "handler"
    /\ request[r].at = "operation"
    /\ LET self == current_broker(r)
           op == operation(request[r].view)
       IN  \E f \in Outcomes(op), via \in {"call_sync", "call_async"} :
              LET got == IF via = "call_sync" THEN call_sync(BROKERS, self, f)
                         ELSE call_async(BROKERS, self, f)
              IN  request' = [request EXCEPT
                      ![r].calls = Append(@, [op |-> op, via |-> via, broker |-> self,
                                              contract |-> request[r].contract,
                                              raised |-> f.raised]),
                      ![r].returned = f.value,
                      ![r].result = got.value,
                      ![r].exc = got.raised,
                      ![r].raised_at = IF got.raised # NoExc THEN "operation" ELSE "none",
                      ![r].pc = IF got.raised # NoExc THEN "raised" ELSE "handler",
                      ![r].at = IF got.raised # NoExc THEN "operation" ELSE "dumps"]
    /\ UNCHANGED <<BROKERS, nonGateway>>

\* an adapter that does not implement the operation: the method of BaseBroker
\* raises NotImplementedError itself
BrokerOperationNotImplemented(r) ==
    /\ request[r].pc = "handler"
    /\ request[r].at = "operation"
    /\ request' = [request EXCEPT
           ![r].calls = Append(@, [op |-> operation(request[r].view), via |-> "BaseBroker",
                                   broker |-> current_broker(r),
                                   contract |-> request[r].contract,
                                   raised |-> Raised("NotImplementedError", "")]),
           ![r].exc = Raised("NotImplementedError", ""),
           ![r].raised_at = "operation",
           ![r].pc = "raised"]
    /\ UNCHANGED <<BROKERS, nonGateway>>

\* return self.response_api(broker, {...}): the body is serialized with
\* HttpTradingView.dumps
ViewResponds(r) ==
    /\ request[r].pc = "handler"
    /\ request[r].at = "dumps"
    /\ LET e == dumps_raises(request[r].result)
       IN  request' = [request EXCEPT
               ![r].exc = e,
               ![r].raised_at = IF e # NoExc THEN "dumps" ELSE "none",
               ![r].pc = IF e # NoExc THEN "raised" ELSE "unbind",
               ![r].response =
                   IF e # NoExc THEN NoResponse
                   ELSE response_api(BROKERS, current_broker(r),
                                     [result |-> request[r].result.type], NoExc, now)]
    /\ UNCHANGED <<BROKERS, nonGateway>>

NextView ==
    \/ AuthMiddleware(1)
    \/ ViewPrepares(1)
    \/ BrokerOperation(1)
    \/ BrokerOperationNotImplemented(1)
    \/ ViewResponds(1)
    \/ ExceptionMiddleware(1)
    \/ Unbind(1)

SpecView == InitView /\ [][NextView]_vars

\* the requests followed through their views
Followed == {r \in Requests : "view" \in DOMAIN request[r]}

\* C23: for an authenticated request the envelope has ex = null exactly when
\* the view, the broker operation and the serialization of the result all
\* completed without an exception; when one of them raised, ex is the string
\* of the exception (possibly empty, never null).
NullExIffNoException ==
    \A r \in Followed :
        (Authenticated(r) /\ request[r].pc \in {"unbind", "done"}) =>
            /\ request[r].response.status = 200
            /\ request[r].response.body.ex = None <=> request[r].exc = NoExc
            /\ request[r].exc = NoExc =>
                  /\ request[r].at = "dumps"
                  /\ Len(request[r].calls) = 1
                  /\ request[r].calls[1].raised = NoExc
                  /\ dumps_raises(request[r].result) = NoExc
            /\ request[r].exc # NoExc =>
                  /\ request[r].response.body.ex = request[r].exc.msg
                  /\ request[r].response.body.ex # None

\* the operation returned the positions and their serialization raised
WitnessSerializationFailureHasEx ==
    \E r \in Followed :
        /\ request[r].pc = "done"
        /\ request[r].raised_at = "dumps"
        /\ request[r].calls[1].raised = NoExc
        /\ request[r].response.body.ex = "'Contract' object has no attribute 'ticker'"

\* C24: a request's broker operation is invoked at most once, and after it
\* raised the error envelope is returned without another invocation.
GatewayNeverRetries ==
    /\ [](\A r \in Followed :
            /\ Len(request[r].calls) <= 1
            /\ (request[r].raised_at = "operation" /\ request[r].pc \in {"unbind", "done"}) =>
                  /\ Len(request[r].calls) = 1
                  /\ request[r].response.status = 200
                  /\ request[r].response.body.ex = request[r].exc.msg)
    /\ [][\A r \in Followed :
            request[r].exc # NoExc => request'[r].calls = request[r].calls]_vars

\* the one invocation timed out and the envelope went out
WitnessOneCallThenEnvelope ==
    \E r \in Followed :
        /\ request[r].pc = "done"
        /\ Len(request[r].calls) = 1
        /\ request[r].calls[1].raised.kind = "TimeoutError"
        /\ request[r].exc.kind = "BrokerError"
        /\ request[r].response.body.ex = request[r].exc.msg

\* C27: an exception raised by an operation run through call_sync or
\* call_async reaches the caller as a BrokerError whose broker is the instance
\* the operation was invoked on, and a value the operation returned reaches
\* the caller as it is.
OperationFailureIsBrokerError ==
    \A r \in Followed : \A k \in DOMAIN request[r].calls :
        LET call == request[r].calls[k]
        IN  call.via \in {"call_sync", "call_async"} =>
                /\ call.raised # NoExc =>
                      /\ request[r].exc.kind = "BrokerError"
                      /\ request[r].exc.broker = call.broker
                      /\ request[r].exc.broker = Resolved(r)
                      /\ request[r].exc.msg = broker_error_str(BROKERS[call.broker])
                /\ call.raised = NoExc =>
                      /\ request[r].result = request[r].returned
                      /\ request[r].result \in Returnable(call.op)

\* a ValueError of the callable reached the view as the BrokerError of the
\* second broker of the list
WitnessValueErrorWrapped ==
    \E r \in Followed :
        /\ request[r].pc = "raised"
        /\ Len(request[r].calls) = 1
        /\ request[r].calls[1].via = "call_sync"
        /\ request[r].calls[1].raised.kind = "ValueError"
        /\ request[r].exc.kind = "BrokerError"
        /\ request[r].exc.broker = 2

\* C28: a market/quote or order/place request of an authenticated client with
\* a valid tradeType, a region and a symbol gets its Contract
\* (trade_type, symbol, region) built and the broker's quote / place_order
\* invoked exactly once with it: it does not end in an exception of the view
\* before the broker is reached.
ContractRequestReachesBroker ==
    \A r \in Followed :
        LET q == request[r]
        IN  ( /\ q.view \in {"market/quote", "order/place"}
              /\ q.params.tradeType \in TradeTypes
              /\ q.params.region # "--"
              /\ q.params.symbol # "--"
              /\ q.view = "order/place" => q.params.orderType \in OrderTypes
              /\ q.pc \in {"raised", "unbind", "done"} )
            => /\ q.raised_at # "view"
               /\ Len(q.calls) = 1
               /\ q.calls[1].op = operation(q.view)
               /\ q.calls[1].contract = [trade_type |-> q.params.tradeType,
                                         symbol |-> q.params.symbol,
                                         region |-> q.params.region]

\* ------------------------------------------------ LeakyBucket, the wait
\* the wait a caller is about to sleep, times leak_rate
WaitOf(c) == secs_times_rate(caller[c].t_last, leak_rate, now)

\* C31: when the wait computed after a failed attempt
\* (last_time + 60 / leak_rate - now) is zero or negative, the caller does not
\* block, under either calling convention: its next step takes it to its next
\* attempt, and the clock has not advanced in that step.
NonPositiveWaitDoesNotBlock ==
    [][\A c \in Callers :
          (caller[c].pc = "sleep" /\ WaitOf(c) <= 0 /\ caller'[c] # caller[c])
              => (caller'[c].pc = "acquire" /\ now' = now)]_vars

\* a caller whose failed attempt was followed by more than 60 / leak_rate
\* seconds before it read the clock: its wait is negative
WitnessNegativeWaitComputed ==
    \E c \in Callers :
        /\ caller[c].pc = "sleep"
        /\ WaitOf(c) < 0
        /\ used_tokens = capacity

\* C34: an acquire attempt that does not commit leaves the limiter as it found
\* it: the step that rewrites _used_tokens with the decayed count and fails the
\* test writes the count that was there (a failing test means no token has
\* decayed since _last_time), and the step that copies last_time writes
\* nothing; _last_time stays, so no decay is counted twice.
FailedAttemptChangesNothing ==
    [][\A c \in Callers :
          /\ (caller[c].pc = "test" /\ caller'[c].pc = "miss")
                => /\ used_tokens' = used_tokens
                   /\ last_time' = last_time
                   /\ get_used_tokens(used_tokens, last_time, leak_rate, now) = used_tokens
          /\ (caller[c].pc = "miss" /\ caller'[c].pc = "sleep")
                => /\ used_tokens' = used_tokens
                   /\ last_time' = last_time]_vars

\* an attempt has failed on a full limiter at a clock reading later than
\* _last_time: the decay was recomputed over a positive elapsed time
WitnessFailedAttemptAfterTimePassed ==
    \E c \in Callers :
        /\ caller[c].pc = "miss"
        /\ caller[c].t_now > last_time
        /\ used_tokens = capacity
        /\ capacity = MaxCap

\* ------------------------------------------- LeakyBucket, an ideal bucket
\* An ideal leaky bucket run side by side: its level decays continuously at
\* leak_rate / 60 per second, never below 0, and it admits an attempt iff
\* level + 1 <= capacity.  It is given the attempts the limiter commits.  The
\* level is kept in sixtieths of a token, so that it is an integer at every
\* whole second.  Commit i is an attempt checked at the reading commits[i].t
\* and stamped at the reading commits[i].last; the ideal bucket is charged the
\* token at the later one, which gives the higher level at every later
\* instant, and is asked for admission at the earlier one, where its level is
\* the higher.
RECURSIVE IdealLevel(_, _)
\* the ideal level at instant t, after the first i commits
IdealLevel(i, t) ==
    IF i = 0
    THEN 0
    ELSE Max(0, IdealLevel(i - 1, commits[i].last) + 60 - leak_rate * (t - commits[i].last))

\* C35: the limiter is at least as restrictive as the ideal leaky bucket: in
\* every reachable state the ideal level is at most _used_tokens, and every
\* attempt the limiter committed was one the ideal bucket admits
\* (level + 1 <= capacity).
NoLaxerThanIdealBucket ==
    /\ IdealLevel(Len(commits), now) <= 60 * used_tokens
    /\ \A i \in 1..Len(commits) :
          IdealLevel(i - 1, commits[i].t) + 60 <= 60 * capacity

\* after two commits the ideal bucket still holds part of a token and is
\* below even the decayed count of the limiter: flooring the decay and
\* restarting it at the commit have cost time
WitnessIdealBelowLimiter ==
    /\ Len(commits) >= 2
    /\ lock = 0 /\ alock = 0
    /\ IdealLevel(Len(commits), now) > 0
    /\ IdealLevel(Len(commits), now)
          < 60 * get_used_tokens(used_tokens, last_time, leak_rate, now)
    /\ IdealLevel(Len(commits), now) % 60 # 0

\* ------------------------------------------- LeakyBucket, the two locks
\* C30: a caller that computes its wait, sleeps or is suspended holds neither
\* lock: a lock is held only between its acquisition and the commit or the
\* failed test (decay recomputation, test, increment, stamp), so that a caller
\* about to make its attempt is never kept out by a waiting one.
NoWaitUnderLock ==
    /\ \A c \in Callers :
          caller[c].pc \in {"idle", "acquire", "sleep", "asleep"} => (lock # c /\ alock # c)
    /\ lock # 0 => caller[lock].pc \in {"test", "inc", "stamp", "miss"}
    /\ alock # 0 => caller[alock].pc \in {"test", "inc", "stamp", "miss"}
    /\ \A c, d \in Callers :
          (caller[c].pc \in {"sleep", "asleep"} /\ caller[d].pc = "acquire") =>
              \/ LockFree(d)
              \/ \E e \in Callers \ {c, d} : lock = e \/ alock = e

\* one caller sleeps while the other one holds the lock for its attempt
WitnessAttemptWhileOtherSleeps ==
    \E c, d \in Callers :
        /\ caller[c].pc = "asleep"
        /\ caller[d].pc = "test"
        /\ (lock = d \/ alock = d)

\* ------------------------------------------ LeakyBucket, order of service
nonArrival == <<orderVars, gatewayVars, keeperVars, registerVars, app, with_block, paths,
                assets_bucket, lb_operation, event>>

\* LeakyBucket(leak_rate, capacity, used_tokens): the constructor takes any
\* used_tokens with 0 <= used_tokens <= capacity (lines 17-22); here an empty
\* limiter or a full one
InitArrival ==
    /\ now = 0
    /\ capacity \in 1..MaxCap
    /\ leak_rate \in Rates
    /\ used_tokens \in {0, capacity}
    /\ last_time = 0
    /\ lock = 0
    /\ alock = 0
    /\ \E cv \in {"sync", "async"} : caller = [c \in Callers |-> IdleCaller(cv)]
    /\ commits = <<>>
    /\ IdleOrder
    /\ IdleGateway
    /\ IdleKeeper
    /\ IdleLater

\* consume() / consume_async() is called, once by each caller; the call goes
\* on record
Arrive(c) ==
    /\ caller[c].pc = "idle"
    /\ \A i \in 1..Len(arrivals) : arrivals[i] # c
    /\ caller' = [caller EXCEPT ![c].pc = "acquire"]
    /\ arrivals' = Append(arrivals, c)
    /\ UNCHANGED <<now, capacity, leak_rate, used_tokens, last_time, lock, alock, commits>>
    /\ UNCHANGED nonArrival

NextArrival ==
    \/ Tick
    \/ \E c \in Callers : Arrive(c)
    \/ \E c \in Callers : Lock(c)
    \/ \E c \in Callers : Test(c)
    \/ \E c \in Callers : Commit(c)
    \/ \E c \in Callers : Stamp(c)
    \/ \E c \in Callers : Miss(c)
    \/ \E c \in Callers : Sleep(c)
    \/ \E c \in Callers : Wake(c)

SpecArrival == InitArrival /\ [][NextArrival]_vars

\* the callers whose decay check has succeeded and whose commit is under way
Passed == {c \in Callers : caller[c].pc \in {"inc", "stamp"}}

\* caller c's call is on record and it has returned
Served(c) ==
    /\ caller[c].pc = "idle"
    /\ \E i \in 1..Len(arrivals) : arrivals[i] = c

\* C32: callers of one limiter commit in the order in which their decay checks
\* succeed: at most one caller at a time is between its successful check and
\* the end of its commit, and every commit that is recorded is that caller's,
\* made on the clock reading of its check.  That order is not the order of
\* arrival (WitnessLaterArrivalServedFirst).
CommitsInCheckOrder ==
    /\ [](Cardinality(Passed) <= 1)
    /\ [][Len(commits') > Len(commits) =>
             \E c \in Passed :
                 /\ caller[c].pc = "stamp"
                 /\ caller'[c].pc = "idle"
                 /\ Passed' = {}
                 /\ commits' = Append(commits, commits'[Len(commits')])
                 /\ commits'[Len(commits')].t = caller[c].t_now]_vars

\* a caller that called first, failed its check on the limiter as it was
\* constructed (it copied last_time = 0, so it sleeps until 60 / leak_rate) and
\* still sleeps, and a caller that called after it and has returned with a
\* token committed at a later clock reading
WitnessLaterArrivalServedFirst ==
    \E i, j \in 1..Len(arrivals) :
        /\ i < j
        /\ caller[arrivals[i]].pc = "asleep"
        /\ Served(arrivals[j])
        /\ Len(commits) = 1
        /\ caller[arrivals[i]].wake = 60
        /\ commits[1].last > 0

\* ------------------------------------------ LeakyBucket, the two entries
\* One pass of `while True`, as a function of the limiter's fields b and of
\* the two clock readings the pass makes: t in _get_used_tokens (line 51) and
\* u at the stamp (line 64 / 79) or before the wait (line 67 / 82).  A pass
\* gives the fields it leaves, whether the loop was left (break), the wait it
\* computed and the time the caller is then kept waiting (both times
\* leak_rate).

\* TimeTools.sleep(secs): returns at once when secs <= 0.0
TimeTools_sleep(secs) == IF secs <= 0 THEN 0 ELSE secs

\* asyncio.sleep(secs): a delay <= 0 only yields to the event loop
asyncio_sleep(secs) == IF secs <= 0 THEN 0 ELSE secs

\* _consume, lines 60-69
consume_pass(b, t, u) ==
    LET new_used_tokens == get_used_tokens(b.used_tokens, b.last_time, b.leak_rate, t)
    IN  IF 1 + new_used_tokens <= b.capacity
        THEN [bucket |-> [b EXCEPT !.used_tokens = new_used_tokens + 1, !.last_time = u],
              out |-> [returned |-> TRUE, secs |-> 0, slept |-> 0]]
        ELSE LET secs == secs_times_rate(b.last_time, b.leak_rate, u)
             IN  [bucket |-> [b EXCEPT !.used_tokens = new_used_tokens],
                  out |-> [returned |-> FALSE, secs |-> secs, slept |-> TimeTools_sleep(secs)]]

consume_async_pass_stamps_first_reading(b, t, u) ==
    LET new_used_tokens == get_used_tokens(b.used_tokens, b.last_time, b.leak_rate, t)
    IN  IF 1 + new_used_tokens <= b.capacity
        THEN [bucket |-> [b EXCEPT !.used_tokens = new_used_tokens + 1, !.last_time = t],
              out |-> [returned |-> TRUE, secs |-> 0, slept |-> 0]]
        ELSE LET secs == secs_times_rate(b.last_time, b.leak_rate, u)
             IN  [bucket |-> [b EXCEPT !.used_tokens = new_used_tokens],
                  out |-> [returned |-> FALSE, secs |-> secs, slept |-> asyncio_sleep(secs)]]

\* consume_async, lines 75-84
consume_async_pass(b, t, u) ==
    LET new_used_tokens == get_used_tokens(b.used_tokens, b.last_time, b.leak_rate, t)
    IN  IF 1 + new_used_tokens <= b.capacity
        THEN [bucket |-> [b EXCEPT !.used_tokens = new_used_tokens + 1, !.last_time = u],
              out |-> [returned |-> TRUE, secs |-> 0, slept |-> 0]]
        ELSE LET secs == secs_times_rate(b.last_time, b.leak_rate, u)
             IN  [bucket |-> [b EXCEPT !.used_tokens = new_used_tokens],
                  out |-> [returned |-> FALSE, secs |-> secs, slept |-> asyncio_sleep(secs)]]

nonPaths == <<bucketVars, orderVars, gatewayVars, keeperVars, registerVars, app, with_block,
              arrivals, assets_bucket, lb_operation, event>>

\* two limiters constructed with the same arguments at the same instant
InitPaths ==
    /\ now = 0
    /\ IdleBucket
    /\ IdleOrder
    /\ IdleGateway
    /\ IdleKeeper
    /\ IdleRegister
    /\ IdleLifecycle
    /\ IdleWith
    /\ IdleArrivals
    /\ IdleOperations
    /\ IdlePush
    /\ \E cap \in 1..MaxCap, rate \in Rates :
          \E used \in 0..cap :
              LET b == [capacity |-> cap, leak_rate |-> rate, used_tokens |-> used,
                        last_time |-> 0]
              IN  paths = [sync |-> b, async |-> b,
                           out |-> [sync |-> NoPass, async |-> NoPass], ready |-> 0]

\* the caller of the first limiter makes a pass of _consume and the caller of
\* the second one a pass of consume_async, on the same two clock readings;
\* a pass is made once the wait of the pass before is over
LoopPass ==
    /\ now * paths.sync.leak_rate >= paths.ready
    /\ \E u \in now..Min({now + 1, MaxTime}) :
          LET s == consume_pass(paths.sync, now, u)
              a == consume_async_pass(paths.async, now, u)
          IN  /\ paths' = [sync |-> s.bucket, async |-> a.bucket,
                           out |-> [sync |-> s.out, async |-> a.out],
                           ready |-> u * paths.sync.leak_rate + s.out.slept]
              /\ now' = u
    /\ UNCHANGED nonPaths

NextPaths ==
    \/ Tick
    \/ LoopPass

SpecPaths == InitPaths /\ [][NextPaths]_vars

\* C33: consume and consume_async are the same state machine: from the same
\* (used, last_time), on the same clock readings and attempts, both make the
\* same commit / wait decision, compute the same wait, keep the caller waiting
\* as long, and leave the same (used, last_time).
PathsAgree ==
    /\ paths.sync = paths.async
    /\ paths.out.sync = paths.out.async

\* both callers were refused on full limiters after an earlier commit and
\* computed a positive wait
WitnessBothPathsWait ==
    /\ paths.out.sync.returned = FALSE
    /\ paths.out.sync.secs > 0
    /\ paths.out.async.slept > 0
    /\ paths.sync.used_tokens = MaxCap
    /\ paths.async.last_time > 0

\* ------------------------------- LeakyBucket, both entries on one limiter
\* the calling convention of caller c when threads and tasks share a limiter
MixedConv(c) == IF c % 2 = 1 THEN "sync" ELSE "async"

\* LeakyBucket.__init__; then threads call consume and tasks call
\* consume_async on the same object, NumCallers acquisitions in all
InitMixed ==
    /\ now = 0
    /\ capacity \in 1..MaxCap
    /\ leak_rate \in Rates
    /\ used_tokens = 0
    /\ last_time = 0
    /\ lock = 0
    /\ alock = 0
    /\ caller = [c \in Callers |-> IdleCaller(MixedConv(c))]
    /\ commits = <<>>
    /\ IdleOrder
    /\ IdleGateway
    /\ IdleKeeper
    /\ IdleLater

NextMixed ==
    \/ Tick
    \/ \E c \in Callers : CallOnce(c)
    \/ \E c \in Callers : Lock(c)
    \/ \E c \in Callers : Test(c)
    \/ \E c \in Callers : Commit(c)
    \/ \E c \in Callers : Stamp(c)
    \/ \E c \in Callers : Miss(c)
    \/ \E c \in Callers : Sleep(c)
    \/ \E c \in Callers : Wake(c)

SpecMixed == InitMixed /\ [][NextMixed]_vars

\* the callers inside the locked section of their loop
InSection == {c \in Callers : caller[c].pc \in {"test", "inc", "stamp", "miss"}}

\* C36: _lock and _alock of one limiter do not exclude each other: each is
\* held by callers of its own convention only, and a caller about to take its
\* lock finds it free whenever no caller of its own convention is inside the
\* locked section, whatever the callers of the other convention do.  So a
\* thread and a task can pass the test on the same count and both commit
\* (WitnessUsedTokensAboveCapacity).
LocksDoNotExcludeEachOther ==
    /\ lock # 0 => caller[lock].conv = "sync"
    /\ alock # 0 => caller[alock].conv = "async"
    /\ \A c \in Callers :
          ( /\ caller[c].pc = "acquire"
            /\ \A d \in InSection : caller[d].conv # caller[c].conv )
          => LockFree(c)

\* with no time passed since construction, capacity + 1 acquisitions have
\* committed and returned: _used_tokens is above capacity
WitnessUsedTokensAboveCapacity ==
    /\ now = 0
    /\ used_tokens = capacity + 1
    /\ Len(commits) = capacity + 1
    /\ \A c \in Callers : caller[c].pc = "idle"

\* --------------------------------------- LeakyBucket as a context manager
nonWith == <<orderVars, gatewayVars, keeperVars, registerVars, app, moreVars>>

\* LeakyBucket.__init__; no caller is in a block
InitWith ==
    /\ now = 0
    /\ capacity \in 1..MaxCap
    /\ leak_rate \in Rates
    /\ used_tokens = 0
    /\ last_time = 0
    /\ lock = 0
    /\ alock = 0
    /\ \E cv \in {"sync", "async"} : caller = [c \in Callers |-> IdleCaller(cv)]
    /\ commits = <<>>
    /\ IdleOrder
    /\ IdleGateway
    /\ IdleKeeper
    /\ IdleLater

\* `with bucket:` / `async with bucket:` is entered: __enter__ calls consume(),
\* __aenter__ awaits consume_async(); each caller runs one block
Enter(c) ==
    /\ with_block[c].state = "out"
    /\ caller[c].pc = "idle"
    /\ Issued < NumCallers
    /\ caller' = [caller EXCEPT ![c].pc = "acquire"]
    /\ with_block' = [with_block EXCEPT ![c] = [state |-> "in", exc_type |-> None]]
    /\ UNCHANGED <<now, capacity, leak_rate, used_tokens, last_time, lock, alock, commits>>
    /\ UNCHANGED nonWith

ExitRefunds(c) ==
    /\ with_block[c].state = "in"
    /\ caller[c].pc = "idle"
    /\ \E exc_type \in {None, "Exception"} :
          with_block' = [with_block EXCEPT ![c] = [state |-> "out", exc_type |-> exc_type]]
    /\ used_tokens' = Max(0, used_tokens - 1)
    /\ UNCHANGED <<now, capacity, leak_rate, last_time, lock, alock, caller, commits>>
    /\ UNCHANGED nonWith

\* the body of the block ends, normally or with an exception, and __exit__ /
\* __aexit__ runs: pass
Exit(c) ==
    /\ with_block[c].state = "in"
    /\ caller[c].pc = "idle"
    /\ \E exc_type \in {None, "Exception"} :
          with_block' = [with_block EXCEPT ![c] = [state |-> "out", exc_type |-> exc_type]]
    /\ UNCHANGED <<now, bucketVars>>
    /\ UNCHANGED nonWith

NextWith ==
    \/ Tick
    \/ \E c \in Callers : Enter(c)
    \/ \E c \in Callers : Lock(c)
    \/ \E c \in Callers : Test(c)
    \/ \E c \in Callers : Commit(c)
    \/ \E c \in Callers : Stamp(c)
    \/ \E c \in Callers : Miss(c)
    \/ \E c \in Callers : Sleep(c)
    \/ \E c \in Callers : Wake(c)
    \/ \E c \in Callers : Exit(c)

SpecWith == InitWith /\ [][NextWith]_vars

\* C29: leaving a with / async with block, normally or through an exception of
\* its body, changes neither _used_tokens nor _last_time; _used_tokens goes
\* down only where an acquire attempt recomputes the decay.
CommittedTokenNeverRefunded ==
    [][/\ \A c \in Callers :
             (with_block[c].state = "in" /\ with_block'[c].state = "out") =>
                 /\ used_tokens' = used_tokens
                 /\ last_time' = last_time
       /\ used_tokens' < used_tokens =>
             \E c \in Callers :
                 /\ caller[c].pc = "test"
                 /\ caller'[c].pc \in {"inc", "miss"}
                 /\ used_tokens' = get_used_tokens(used_tokens, last_time, leak_rate, now)]_vars

\* a block was left through an exception with the limiter still full, at the
\* instant of its commit
WitnessBlockLeftWithTokenKept ==
    \E c \in Callers :
        /\ with_block[c] = [state |-> "out", exc_type |-> "Exception"]
        /\ used_tokens = capacity
        /\ capacity = MaxCap
        /\ Len(commits) = MaxCap
        /\ last_time = commits[Len(commits)].last

\* ------------------------------------------ longbridge, whole operations
\* A LongBridge operation (_positions, _cash, _order, _place_order,
\* _cancel_order; _quote is alike with _quote_bucket) run by call_sync in an
\* executor thread:
\*     with self._assets_bucket:        consume() of LeakyBucket(60)
\*         self._try_refresh()          keeper.lock, then with self._token_bucket
\*         self._trade_client....       the partner's call
\* Three locks are involved: _assets_bucket._lock (assets_bucket.lock), the
\* keeper's RLock (keeper_lock) and _token_bucket._lock (lock; the limiter of
\* bucketVars is _token_bucket here).
AssetsBucketRate == 60

nonOperation == <<orderVars, gatewayVars, registerVars, app, with_block, arrivals, paths,
                  event>>

\* LongBridge.__init__ / _on_init, as for SpecRefresh; no operation is running
InitOperation ==
    /\ InitRefresh

\* an operation is called: `with self._assets_bucket:` calls consume()
Operation(t) ==
    /\ lb_operation[t].pc = "out"
    /\ lb_operation' = [lb_operation EXCEPT ![t].pc = "lock"]
    /\ UNCHANGED <<now, bucketVars, keeperVars, assets_bucket, nonOperation>>

\* _consume of _assets_bucket: with self._lock:
AssetsLock(t) ==
    /\ lb_operation[t].pc = "lock"
    /\ assets_bucket.lock = 0
    /\ assets_bucket' = [assets_bucket EXCEPT !.lock = t]
    /\ lb_operation' = [lb_operation EXCEPT ![t].pc = "section"]
    /\ UNCHANGED <<now, bucketVars, keeperVars, nonOperation>>

\* _consume of _assets_bucket, lines 62-69: the test; then the commit, the
\* stamp and the return into the with block, or the copy of last_time, the
\* wait and the sleep; the lock is released either way
AssetsSection(t) ==
    /\ lb_operation[t].pc = "section"
    /\ LET new_used_tokens == get_used_tokens(assets_bucket.used_tokens,
                                              assets_bucket.last_time, AssetsBucketRate, now)
       IN  IF admits(new_used_tokens, DefaultCapacity)
           THEN /\ assets_bucket' = [used_tokens |-> new_used_tokens + 1, last_time |-> now,
                                     lock |-> 0]
                /\ lb_operation' = [lb_operation EXCEPT ![t].pc = "in"]
           ELSE /\ assets_bucket' = [assets_bucket EXCEPT !.used_tokens = new_used_tokens,
                                                          !.lock = 0]
                /\ lb_operation' = [lb_operation EXCEPT
                       ![t].pc = "asleep",
                       ![t].wake = now * AssetsBucketRate +
                                   TimeTools_sleep(secs_times_rate(assets_bucket.last_time,
                                                                   AssetsBucketRate, now))]
    /\ UNCHANGED <<now, bucketVars, keeperVars, nonOperation>>

\* TimeTools.sleep(secs) of that _consume returns
AssetsWake(t) ==
    /\ lb_operation[t].pc = "asleep"
    /\ now * AssetsBucketRate >= lb_operation[t].wake
    /\ lb_operation' = [lb_operation EXCEPT ![t].pc = "lock", ![t].wake = 0]
    /\ UNCHANGED <<now, bucketVars, keeperVars, assets_bucket, nonOperation>>

\* inside the with block: self._try_refresh() is called
OperationTryRefresh(t) ==
    /\ lb_operation[t].pc = "in"
    /\ TryRefresh(t)

\* _try_refresh: `with self._token_bucket:` calls consume();
\* _consume of _token_bucket: with self._lock:
TokenBucketLock(t) ==
    /\ thread[t].pc = "bucket"
    /\ lock = 0
    /\ lock' = t
    /\ thread' = [thread EXCEPT ![t].pc = "section"]
    /\ UNCHANGED <<now, capacity, leak_rate, used_tokens, last_time, alock, caller, commits,
                   orderVars, gatewayVars, laterVars, auto_refresh_token, keeper,
                   keeper_lock, token_file, loaded, lp_config, refresh_calls, construction,
                   reading>>

\* _consume of _token_bucket, lines 62-69: the test; then the commit, the
\* stamp and the return into the with block, or the copy of last_time, the
\* wait and the sleep; the lock is released either way
TokenBucketSection(t) ==
    /\ thread[t].pc = "section"
    /\ lock' = 0
    /\ LET new_used_tokens == get_used_tokens(used_tokens, last_time, leak_rate, now)
       IN  IF admits(new_used_tokens, capacity)
           THEN /\ used_tokens' = new_used_tokens + 1
                /\ last_time' = now
                /\ thread' = [thread EXCEPT ![t].pc = "refresh"]
                /\ UNCHANGED lb_operation
           ELSE /\ used_tokens' = new_used_tokens
                /\ UNCHANGED last_time
                /\ thread' = [thread EXCEPT ![t].pc = "asleep"]
                /\ lb_operation' = [lb_operation EXCEPT
                       ![t].wake = now * leak_rate +
                                   TimeTools_sleep(secs_times_rate(last_time, leak_rate, now))]
    /\ UNCHANGED <<now, capacity, leak_rate, alock, caller, commits, orderVars, gatewayVars,
                   registerVars, app, with_block, event, arrivals, paths, assets_bucket,
                   auto_refresh_token, keeper, keeper_lock, token_file, loaded, lp_config,
                   refresh_calls, construction, reading>>

\* TimeTools.sleep(secs) of that _consume returns
TokenBucketWake(t) ==
    /\ thread[t].pc = "asleep"
    /\ now * leak_rate >= lb_operation[t].wake
    /\ thread' = [thread EXCEPT ![t].pc = "bucket"]
    /\ lb_operation' = [lb_operation EXCEPT ![t].wake = 0]
    /\ UNCHANGED <<now, bucketVars, orderVars, gatewayVars, registerVars, app, with_block,
                   event, arrivals, paths, assets_bucket, auto_refresh_token, keeper, keeper_lock,
                   token_file, loaded, lp_config, refresh_calls, construction, reading>>

\* _try_refresh has returned and the partner's call has been made, or
\* _try_refresh has raised: the with block is left, the operation ends and
\* its locals are gone
OperationEnds(t) ==
    /\ lb_operation[t].pc = "in"
    /\ thread[t].pc = "done"
    /\ lb_operation' = [lb_operation EXCEPT ![t].pc = "returned"]
    /\ thread' = [thread EXCEPT ![t] = IdleThread]
    /\ UNCHANGED <<now, bucketVars, assets_bucket, nonOperation, auto_refresh_token, keeper,
                   keeper_lock, token_file, loaded, lp_config, refresh_calls, construction,
                   reading>>

\* the next step of thread t
ThreadStep(t) ==
    \/ Operation(t)
    \/ AssetsLock(t)
    \/ AssetsSection(t)
    \/ AssetsWake(t)
    \/ OperationTryRefresh(t)
    \/ KeeperLock(t)
    \/ CheckShouldRefresh(t)
    \/ TokenBucketLock(t)
    \/ TokenBucketSection(t)
    \/ TokenBucketWake(t)
    \/ RefreshReturns(t)
    \/ RefreshRaises(t)
    \/ UpdateToken(t)
    \/ ResetClient(t)
    \/ OperationEnds(t)

NextOperation ==
    \/ TickDay
    \/ \E t \in Threads : Operation(t)
    \/ \E t \in Threads : AssetsLock(t)
    \/ \E t \in Threads : AssetsSection(t)
    \/ \E t \in Threads : AssetsWake(t)
    \/ \E t \in Threads : OperationTryRefresh(t)
    \/ \E t \in Threads : KeeperLock(t)
    \/ \E t \in Threads : CheckShouldRefresh(t)
    \/ \E t \in Threads : TokenBucketLock(t)
    \/ \E t \in Threads : TokenBucketSection(t)
    \/ \E t \in Threads : TokenBucketWake(t)
    \/ \E t \in Threads : RefreshReturns(t)
    \/ \E t \in Threads : RefreshRaises(t)
    \/ \E t \in Threads : UpdateToken(t)
    \/ \E t \in Threads : ResetClient(t)
    \/ \E t \in Threads : OperationEnds(t)

SpecOperation == InitOperation /\ [][NextOperation]_vars

\* thread t is inside an operation
Running(t) == lb_operation[t].pc \notin {"out", "returned"}

\* thread t is in a sleep, which the clock ends
Sleeping(t) == lb_operation[t].pc = "asleep" \/ thread[t].pc = "asleep"

\* thread t can take a step, now or when the clock has advanced
CanProceed(t) == Sleeping(t) \/ ENABLED ThreadStep(t)

\* the lock thread t is about to take: 0 when it is not about to take one
Wanted(t) ==
    IF lb_operation[t].pc = "lock" THEN "assets"
    ELSE IF thread[t].pc \in {"lock", "update"} THEN "keeper"
    ELSE IF thread[t].pc = "bucket" THEN "token"
    ELSE "none"

Holder(l) ==
    IF l = "assets" THEN assets_bucket.lock
    ELSE IF l = "keeper" THEN keeper_lock
    ELSE IF l = "token" THEN lock
    ELSE 0

\* the locks thread t holds
Held(t) == {l \in {"assets", "keeper", "token"} : Holder(l) = t}

\* C39: no interleaving of concurrent operations on one instance reaches a
\* deadlock.  A thread inside an operation can always proceed, or it waits
\* for a lock whose holder is another thread that can proceed.  A thread
\* takes the keeper's lock only after its rate-limiter acquire has returned,
\* holding no limiter's lock; update_token called from _try_refresh finds the
\* keeper's lock held by its own thread and goes on; and _token_bucket's lock
\* is only taken by the holder of the keeper's lock, who releases it without
\* waiting for anything.
OperationsNeverDeadlock ==
    /\ \A t \in Threads :
          Running(t) =>
              \/ CanProceed(t)
              \/ /\ Holder(Wanted(t)) \notin {0, t}
                 /\ CanProceed(Holder(Wanted(t)))
    /\ \A t \in Threads :
          /\ Wanted(t) = "assets" => Held(t) = {}
          /\ (Wanted(t) = "keeper" /\ thread[t].pc = "lock") =>
                (Held(t) = {} /\ lb_operation[t].pc = "in")
          /\ thread[t].pc = "update" => (keeper_lock = t /\ ENABLED UpdateToken(t))
          /\ Wanted(t) = "token" => (Held(t) = {"keeper"} /\ lock = 0)
          /\ "assets" \in Held(t) => (Held(t) = {"assets"} /\ ENABLED ThreadStep(t))
          /\ "token" \in Held(t) => (Held(t) = {"keeper", "token"} /\ ENABLED ThreadStep(t))

\* one thread is inside the locked section of _token_bucket's consume,
\* holding the keeper's lock and _token_bucket's, after it had to sleep for
\* its token of _assets_bucket; another thread, inside its own with block,
\* waits for the keeper's lock
WitnessWaitingForTheKeeperLock ==
    \E t, u \in Threads :
        /\ t # u
        /\ Held(t) = {"keeper", "token"}
        /\ assets_bucket.last_time > 0
        /\ thread[u].pc = "lock"
        /\ lb_operation[u].pc = "in"
        /\ Wanted(u) = "keeper"
        /\ ~ENABLED ThreadStep(u)


\* ------------------------------------- longbridge, pushed order changes
\* the values of longport.openapi.OrderStatus that matter to _order_status,
\* and some of those that do not
OrderStatus ==
    {"NotReported", "New", "PartialFilled", "Filled", "PendingCancel", "Canceled",
     "Rejected", "Expired", "PartialWithdrawal"}

canceled_endings == {"Canceled"}

bad_endings == {"Rejected", "Expired", "PartialWithdrawal"}

pending_cancel_sets == {"PendingCancel"}

\* a PushOrderChanged: the status, the quantity the order was submitted with
\* and the quantity executed so far (the fields _on_order_changed does not
\* pass to a derived property of the Order are left out)
PushOrderChanged ==
    {e \in [status : OrderStatus, submitted_quantity : 1..MaxQty,
            executed_quantity : 0..MaxQty] :
        e.executed_quantity <= e.submitted_quantity}

\* LongBridge._order_status(lp_order), the PushOrderChanged branch
order_status(lp_order) ==
    [reason |-> IF lp_order.status \in bad_endings THEN lp_order.status ELSE "",
     is_canceled |-> lp_order.status \in canceled_endings,
     is_pending_cancel |-> lp_order.status \in pending_cancel_sets]

\* the Order with the quantity the order was submitted with as qty
on_order_changed_submitted_quantity(e) ==
    [qty |-> e.submitted_quantity,
     filled_qty |-> e.executed_quantity,
     error_reason |-> order_status(e).reason,
     is_canceled |-> order_status(e).is_canceled,
     is_pending_cancel |-> order_status(e).is_pending_cancel]

\* the Order that _on_order_changed builds: qty and filled_qty are both
\* int(event.executed_quantity)
on_order_changed(e) ==
    [qty |-> e.executed_quantity,
     filled_qty |-> e.executed_quantity,
     error_reason |-> order_status(e).reason,
     is_canceled |-> order_status(e).is_canceled,
     is_pending_cancel |-> order_status(e).is_pending_cancel]

\* _when_create_client has set the callback; no order change has been pushed
InitPush ==
    /\ now = 0
    /\ IdleBucket
    /\ IdleGateway
    /\ IdleKeeper
    /\ IdleLater
    /\ IdleOrder

\* the vendor's client calls _on_order_changed(event): the Order is built and
\* handed to dump_order
OnOrderChanged ==
    /\ \E e \in PushOrderChanged :
          /\ event' = e
          /\ order' = on_order_changed(e)
    /\ derived' = NotRead
    /\ wire' = NotEmitted
    /\ UNCHANGED <<contractVars, now, bucketVars, gatewayVars, keeperVars, registerVars, app,
                   with_block, arrivals, paths, assets_bucket, lb_operation>>

NextPush ==
    \/ OnOrderChanged
    \/ ReadProperties

SpecPush == InitPush /\ [][NextPush]_vars

\* C40: every Order that LongBridge builds from a pushed order-change event
\* has qty equal to filled_qty, both being the executed quantity of the
\* event; so whatever the vendor's status is (a submitted or a partially
\* filled order too), its is_filled is true, its is_completed is true and its
\* is_cancelable is false.
PushedOrderIsAlwaysFilled ==
    event # NoEvent =>
        /\ order.qty = event.executed_quantity
        /\ order.filled_qty = order.qty
        /\ is_filled(order)
        /\ is_completed(order)
        /\ ~is_cancelable(order)
        /\ derived.read =>
              /\ derived.is_filled
              /\ derived.is_completed
              /\ ~derived.is_cancelable

WitnessSubmittedOrderReadAsFilled ==
    /\ event.status = "New"
    /\ event.executed_quantity = 0
    /\ event.submitted_quantity > 0
    /\ order = on_order_changed(event)
    /\ derived.read
    /\ derived.is_filled
    /\ derived.is_completed
    /\ ~derived.is_cancelable

====
